---- MODULE Spec2Model ----
(***************************************************************************)
(* Dialog engine of the business assistant: text normalisation, pattern    *)
(* matcher, confirmation state machine, action dispatcher and session      *)
(* store, as implemented in src/app.                                       *)
(*                                                                         *)
(* Text is a sequence of one-element "characters".  A precomposed accented *)
(* letter is written as the base letter followed by its mark inside one    *)
(* character ("i'" is i-acute, "n~" is n-tilde); the marks alone ("'",     *)
(* "~") are the Unicode combining characters.                              *)
(***************************************************************************)
EXTENDS Integers, Sequences, FiniteSets, TLC

Range(s) == { s[i] : i \in DOMAIN s }

(***************************************************************************)
(* Text primitives (str.lower, str.strip, str.split, unicodedata)          *)
(***************************************************************************)
UpperToLower ==
  [ c \in {"A","B","C","D","E","F","G","H","I","J","K","L","M","N","O","P",
           "Q","R","S","T","U","V","W","X","Y","Z",
           "A'","E'","I'","O'","U'","N~"} |->
      CASE c = "A" -> "a" [] c = "B" -> "b" [] c = "C" -> "c" [] c = "D" -> "d"
        [] c = "E" -> "e" [] c = "F" -> "f" [] c = "G" -> "g" [] c = "H" -> "h"
        [] c = "I" -> "i" [] c = "J" -> "j" [] c = "K" -> "k" [] c = "L" -> "l"
        [] c = "M" -> "m" [] c = "N" -> "n" [] c = "O" -> "o" [] c = "P" -> "p"
        [] c = "Q" -> "q" [] c = "R" -> "r" [] c = "S" -> "s" [] c = "T" -> "t"
        [] c = "U" -> "u" [] c = "V" -> "v" [] c = "W" -> "w" [] c = "X" -> "x"
        [] c = "Y" -> "y" [] c = "Z" -> "z"
        [] c = "A'" -> "a'" [] c = "E'" -> "e'" [] c = "I'" -> "i'"
        [] c = "O'" -> "o'" [] c = "U'" -> "u'" [] c = "N~" -> "n~" ]

lower_char(c) == IF c \in DOMAIN UpperToLower THEN UpperToLower[c] ELSE c

lower(text) == [ i \in DOMAIN text |-> lower_char(text[i]) ]

Whitespace == {" "}

RECURSIVE lstrip(_)
lstrip(text) ==
  IF text # << >> /\ Head(text) \in Whitespace THEN lstrip(Tail(text)) ELSE text

RECURSIVE rstrip(_)
rstrip(text) ==
  IF text # << >> /\ text[Len(text)] \in Whitespace
    THEN rstrip(SubSeq(text, 1, Len(text) - 1)) ELSE text

strip(text) == rstrip(lstrip(text))

\* number of items str.split() returns: maximal runs of non-whitespace
split_len(text) ==
  Cardinality({ i \in DOMAIN text :
                  /\ text[i] \notin Whitespace
                  /\ (i = 1 \/ text[i - 1] \in Whitespace) })

\* canonical decomposition of the precomposed letters of the alphabet
Decomposition ==
  [ c \in {"a'","e'","i'","o'","u'","n~","A'","E'","I'","O'","U'","N~"} |->
      CASE c = "a'" -> <<"a","'">> [] c = "e'" -> <<"e","'">>
        [] c = "i'" -> <<"i","'">> [] c = "o'" -> <<"o","'">>
        [] c = "u'" -> <<"u","'">> [] c = "n~" -> <<"n","~">>
        [] c = "A'" -> <<"A","'">> [] c = "E'" -> <<"E","'">>
        [] c = "I'" -> <<"I","'">> [] c = "O'" -> <<"O","'">>
        [] c = "U'" -> <<"U","'">> [] c = "N~" -> <<"N","~">> ]

RECURSIVE nfd(_)
nfd(text) ==
  IF text = << >> THEN << >>
  ELSE (IF Head(text) \in DOMAIN Decomposition
          THEN Decomposition[Head(text)] ELSE <<Head(text)>>) \o nfd(Tail(text))

combining(c) == c \in {"'","~"}

strip_marks(text) == SelectSeq(text, LAMBDA c : ~combining(c))

contains(text, p) ==
  \E i \in 0..(Len(text) - Len(p)) : SubSeq(text, i + 1, i + Len(p)) = p

startswith(text, p) ==
  Len(p) <= Len(text) /\ SubSeq(text, 1, Len(p)) = p

in_list(text, list) == \E i \in DOMAIN list : list[i] = text

any_in(list, text) == \E i \in DOMAIN list : contains(text, list[i])

(***************************************************************************)
(* intentions.py: keyword tables, catalog, matcher                         *)
(***************************************************************************)
CONFIRMATION_KEYWORDS ==
  << <<"s","i'">>,
     <<"s","i">>,
     <<"s">>,
     <<"y","e","s">>,
     <<"c","o","n","f","i","r","m","o">>,
     <<"c","o","n","f","i","r","m","a","r">>,
     <<"o","k">>,
     <<"d","a","l","e">>,
     <<"a","d","e","l","a","n","t","e">> >>

NEGATION_KEYWORDS ==
  << <<"n","o">>,
     <<"n">>,
     <<"c","a","n","c","e","l">>,
     <<"c","a","n","c","e","l","a","r">>,
     <<"c","a","n","c","e","l","a","d","o">>,
     <<"n","o","p","e">>,
     <<"n","e","g","a","t","i","v","o">> >>

ENTITY_KEYWORDS ==
  [ cliente |->
      << <<"c","l","i","e","n","t","e">>,
         <<"c","l","i","e","n","t","e","s">>,
         <<"u","s","u","a","r","i","o">>,
         <<"u","s","u","a","r","i","o","s">> >>,
    producto |->
      << <<"p","r","o","d","u","c","t","o">>,
         <<"p","r","o","d","u","c","t","o","s">>,
         <<"a","r","t","i'","c","u","l","o">>,
         <<"a","r","t","i'","c","u","l","o","s">> >>,
    venta |->
      << <<"v","e","n","t","a">>,
         <<"v","e","n","t","a","s">>,
         <<"p","e","d","i","d","o">>,
         <<"p","e","d","i","d","o","s">> >>,
    factura |->
      << <<"f","a","c","t","u","r","a">>,
         <<"f","a","c","t","u","r","a","s">>,
         <<"c","o","m","p","r","o","b","a","n","t","e">> >> ]

\* an Intention object; None is NoIntention
NoIntention ==
  [ key |-> "none", type |-> "none", entities |-> << >>, action |-> "none" ]

IntentionKeys ==
  << "listar_clientes", "buscar_cliente", "crear_cliente", "listar_productos",
     "crear_venta", "generar_factura", "conversacion_general" >>

INTENTIONS ==
  [ listar_clientes |->
      [ key |-> "listar_clientes", type |-> "consulta",
        entities |-> <<"cliente">>, action |-> "listar" ],
    buscar_cliente |->
      [ key |-> "buscar_cliente", type |-> "consulta",
        entities |-> <<"cliente">>, action |-> "buscar" ],
    crear_cliente |->
      [ key |-> "crear_cliente", type |-> "registro",
        entities |-> <<"cliente">>, action |-> "crear" ],
    listar_productos |->
      [ key |-> "listar_productos", type |-> "consulta",
        entities |-> <<"producto">>, action |-> "listar" ],
    crear_venta |->
      [ key |-> "crear_venta", type |-> "venta",
        entities |-> <<"venta","cliente","producto">>,
        action |-> "procesar_venta" ],
    generar_factura |->
      [ key |-> "generar_factura", type |-> "facturacion",
        entities |-> <<"factura","venta">>, action |-> "generar_factura" ],
    conversacion_general |->
      [ key |-> "conversacion_general", type |-> "conversacion",
        entities |-> <<"asistente">>, action |-> "conversar" ] ]

patterns ==
  [ listar_clientes |->
      << <<"l","i","s","t","a","r"," ","c","l","i","e","n","t","e","s">>,
         <<"m","o","s","t","r","a","r"," ","c","l","i","e","n","t","e","s">>,
         <<"v","e","r"," ","c","l","i","e","n","t","e","s">>,
         <<"d","a","m","e"," ","l","o","s"," ","c","l","i","e","n","t","e","s">>,
         <<"q","u","i","e","r","o"," ","v","e","r"," ","l","o","s"," ","c","l","i","e","n","t","e","s">>,
         <<"c","l","i","e","n","t","e","s"," ","r","e","g","i","s","t","r","a","d","o","s">>,
         <<"t","o","d","o","s"," ","l","o","s"," ","c","l","i","e","n","t","e","s">>,
         <<"c","o","n","s","u","l","t","a","r"," ","c","l","i","e","n","t","e","s">>,
         <<"b","u","s","c","a","r"," ","t","o","d","o","s"," ","l","o","s"," ","c","l","i","e","n","t","e","s">>,
         <<"l","i","s","t","a","r"," ","c","l","i","e","n","t","e">>,
         <<"v","e","r"," ","c","l","i","e","n","t","e">> >>,
    buscar_cliente |->
      << <<"b","u","s","c","a","r"," ","c","l","i","e","n","t","e">>,
         <<"e","n","c","o","n","t","r","a","r"," ","c","l","i","e","n","t","e">>,
         <<"c","l","i","e","n","t","e"," ","e","s","p","e","c","i'","f","i","c","o">>,
         <<"d","a","t","o","s"," ","d","e","l"," ","c","l","i","e","n","t","e">>,
         <<"i","n","f","o","r","m","a","c","i","o'","n"," ","d","e"," ","c","l","i","e","n","t","e">>,
         <<"b","u","s","c","a","r"," ","u","n"," ","c","l","i","e","n","t","e">>,
         <<"c","l","i","e","n","t","e"," ","p","o","r"," ","n","o","m","b","r","e">>,
         <<"c","l","i","e","n","t","e"," ","p","o","r"," ","e","m","a","i","l">>,
         <<"b","u","s","c","a","r"," ","u","n"," ","c","l","i","e","n","t","e"," ","p","o","r">>,
         <<"i","n","f","o","r","m","a","c","i","o'","n"," ","d","e"," ","u","n"," ","c","l","i","e","n","t","e">>,
         <<"d","a","t","o","s"," ","d","e"," ","c","l","i","e","n","t","e">>,
         <<"c","l","i","e","n","t","e"," ","c","o","n"," ","n","o","m","b","r","e">> >>,
    crear_cliente |->
      << <<"c","r","e","a","r"," ","c","l","i","e","n","t","e">>,
         <<"n","u","e","v","o"," ","c","l","i","e","n","t","e">>,
         <<"a","n~","a","d","i","r"," ","c","l","i","e","n","t","e">>,
         <<"r","e","g","i","s","t","r","a","r"," ","c","l","i","e","n","t","e">>,
         <<"d","a","r"," ","d","e"," ","a","l","t","a"," ","c","l","i","e","n","t","e">>,
         <<"a","g","r","e","g","a","r"," ","c","l","i","e","n","t","e">>,
         <<"i","n","s","e","r","t","a","r"," ","c","l","i","e","n","t","e">>,
         <<"c","l","i","e","n","t","e"," ","n","u","e","v","o">>,
         <<"c","r","e","a","r"," ","u","n"," ","c","l","i","e","n","t","e">>,
         <<"r","e","g","i","s","t","r","a","r"," ","u","n"," ","n","u","e","v","o"," ","c","l","i","e","n","t","e">>,
         <<"a","n~","a","d","i","r"," ","u","n"," ","c","l","i","e","n","t","e"," ","n","u","e","v","o">> >>,
    listar_productos |->
      << <<"l","i","s","t","a","r"," ","p","r","o","d","u","c","t","o","s">>,
         <<"m","o","s","t","r","a","r"," ","p","r","o","d","u","c","t","o","s">>,
         <<"v","e","r"," ","p","r","o","d","u","c","t","o","s">>,
         <<"d","a","m","e"," ","l","o","s"," ","p","r","o","d","u","c","t","o","s">>,
         <<"q","u","i","e","r","o"," ","v","e","r"," ","l","o","s"," ","p","r","o","d","u","c","t","o","s">>,
         <<"p","r","o","d","u","c","t","o","s"," ","d","i","s","p","o","n","i","b","l","e","s">>,
         <<"t","o","d","o","s"," ","l","o","s"," ","p","r","o","d","u","c","t","o","s">>,
         <<"l","i","s","t","a"," ","d","e"," ","p","r","o","d","u","c","t","o","s">>,
         <<"c","a","t","a'","l","o","g","o"," ","d","e"," ","p","r","o","d","u","c","t","o","s">>,
         <<"i","n","v","e","n","t","a","r","i","o">>,
         <<"q","u","e'"," ","p","r","o","d","u","c","t","o","s"," ","h","a","y">> >>,
    crear_venta |->
      << <<"c","r","e","a","r"," ","v","e","n","t","a">>,
         <<"n","u","e","v","a"," ","v","e","n","t","a">>,
         <<"r","e","g","i","s","t","r","a","r"," ","v","e","n","t","a">>,
         <<"h","a","c","e","r"," ","u","n","a"," ","v","e","n","t","a">>,
         <<"p","r","o","c","e","s","a","r"," ","v","e","n","t","a">>,
         <<"v","e","n","d","e","r"," ","p","r","o","d","u","c","t","o">>,
         <<"r","e","g","i","s","t","r","a","r"," ","u","n","a"," ","v","e","n","t","a">>,
         <<"a","n~","a","d","i","r"," ","v","e","n","t","a">>,
         <<"g","e","n","e","r","a","r"," ","v","e","n","t","a">>,
         <<"r","e","a","l","i","z","a","r"," ","v","e","n","t","a">>,
         <<"v","e","n","d","e","r">>,
         <<"p","r","o","c","e","s","a","r"," ","u","n","a"," ","v","e","n","t","a">> >>,
    generar_factura |->
      << <<"g","e","n","e","r","a","r"," ","f","a","c","t","u","r","a">>,
         <<"c","r","e","a","r"," ","f","a","c","t","u","r","a">>,
         <<"n","u","e","v","a"," ","f","a","c","t","u","r","a">>,
         <<"e","m","i","t","i","r"," ","f","a","c","t","u","r","a">>,
         <<"f","a","c","t","u","r","a","r"," ","v","e","n","t","a">>,
         <<"f","a","c","t","u","r","a"," ","p","a","r","a"," ","v","e","n","t","a">>,
         <<"f","a","c","t","u","r","a","c","i","o'","n">>,
         <<"g","e","n","e","r","a","r"," ","l","a"," ","f","a","c","t","u","r","a">>,
         <<"n","e","c","e","s","i","t","o"," ","u","n","a"," ","f","a","c","t","u","r","a">>,
         <<"c","r","e","a","r"," ","u","n","a"," ","f","a","c","t","u","r","a">>,
         <<"e","m","i","t","i","r"," ","u","n","a"," ","f","a","c","t","u","r","a">> >>,
    conversacion_general |->
      << <<"h","o","l","a">>,
         <<"b","u","e","n","o","s"," ","d","i'","a","s">>,
         <<"b","u","e","n","a","s"," ","t","a","r","d","e","s">>,
         <<"b","u","e","n","a","s"," ","n","o","c","h","e","s">>,
         <<"s","a","l","u","d","o","s">>,
         <<"q","u","e'"," ","t","a","l">>,
         <<"c","o'","m","o"," ","e","s","t","a'","s">>,
         <<"c","o'","m","o"," ","v","a">>,
         <<"q","u","e'"," ","h","a","y">>,
         <<"a","y","u","d","a">>,
         <<"a","y","u'","d","a","m","e">>,
         <<"q","u","e'"," ","p","u","e","d","e","s"," ","h","a","c","e","r">>,
         <<"c","o'","m","o"," ","f","u","n","c","i","o","n","a">>,
         <<"c","u","a'","l","e","s"," ","s","o","n"," ","t","u","s"," ","f","u","n","c","i","o","n","e","s">>,
         <<"q","u","e'"," ","s","a","b","e","s"," ","h","a","c","e","r">>,
         <<"c","o'","m","o"," ","t","e"," ","u","s","o">>,
         <<"i","n","s","t","r","u","c","c","i","o","n","e","s">>,
         <<"m","a","n","u","a","l">>,
         <<"g","u","i'","a">>,
         <<"q","u","i","e'","n"," ","e","r","e","s">>,
         <<"c","o'","m","o"," ","t","e"," ","l","l","a","m","a","s">>,
         <<"t","u"," ","n","o","m","b","r","e">>,
         <<"q","u","e'"," ","e","r","e","s">>,
         <<"q","u","e'"," ","t","i","p","o"," ","d","e"," ","a","s","i","s","t","e","n","t","e">>,
         <<"g","r","a","c","i","a","s">>,
         <<"m","u","c","h","a","s"," ","g","r","a","c","i","a","s">>,
         <<"t","e"," ","a","g","r","a","d","e","z","c","o">>,
         <<"e","x","c","e","l","e","n","t","e">>,
         <<"g","e","n","i","a","l">>,
         <<"a","d","i","o'","s">>,
         <<"h","a","s","t","a"," ","l","u","e","g","o">>,
         <<"n","o","s"," ","v","e","m","o","s">>,
         <<"c","h","a","o">>,
         <<"b","y","e">>,
         <<"h","a","s","t","a"," ","p","r","o","n","t","o">> >> ]

\* variant: the surrounding whitespace is removed before the marks are
normalize_text_strip_first(text) == lower(strip_marks(nfd(strip(text))))

normalize_text(text) == strip(lower(strip_marks(nfd(text))))

confirmation_messages ==
  << <<"s","i'">>,
     <<"s","i">>,
     <<"s">>,
     <<"y","e","s">>,
     <<"c","o","n","f","i","r","m","o">>,
     <<"c","o","n","f","i","r","m","a","r">>,
     <<"o","k">>,
     <<"d","a","l","e">>,
     <<"a","d","e","l","a","n","t","e">> >>

negation_messages ==
  << <<"n","o">>,
     <<"n">>,
     <<"c","a","n","c","e","l">>,
     <<"c","a","n","c","e","l","a","r">>,
     <<"c","a","n","c","e","l","a","d","o">>,
     <<"n","o","p","e">>,
     <<"n","e","g","a","t","i","v","o">> >>

question_starters ==
  << <<"q","u","e"," ">>,
     <<"q","u","e'"," ">>,
     <<"c","o","m","o"," ">>,
     <<"c","o'","m","o"," ">>,
     <<"d","o","n","d","e"," ">>,
     <<"d","o'","n","d","e"," ">>,
     <<"c","u","a","n","d","o"," ">>,
     <<"c","u","a'","n","d","o"," ">>,
     <<"p","o","r"," ","q","u","e'"," ">>,
     <<"p","o","r","q","u","e"," ">>,
     <<"c","u","a","l"," ">>,
     <<"c","u","a'","l"," ">>,
     <<"q","u","i","e","n"," ">>,
     <<"q","u","i","e'","n"," ">> >>

business_keywords ==
  ENTITY_KEYWORDS.cliente \o ENTITY_KEYWORDS.producto
    \o ENTITY_KEYWORDS.venta \o ENTITY_KEYWORDS.factura

cliente_words == << <<"c","l","i","e","n","t","e">>,
     <<"c","l","i","e","n","t","e","s">> >>
producto_words == << <<"p","r","o","d","u","c","t","o">>,
     <<"p","r","o","d","u","c","t","o","s">>,
     <<"i","n","v","e","n","t","a","r","i","o">> >>
venta_words == << <<"v","e","n","t","a">>,
     <<"v","e","n","t","a","s">>,
     <<"v","e","n","d","e","r">> >>
factura_words == << <<"f","a","c","t","u","r","a">>,
     <<"f","a","c","t","u","r","a","s">>,
     <<"f","a","c","t","u","r","a","c","i","o'","n">> >>

\* lines 392-396: the catalog keys, by position, one of whose phrases is a
\* substring of the normalized message
phrase_hits(normalized_message) ==
  { k \in DOMAIN IntentionKeys :
      any_in(patterns[IntentionKeys[k]], normalized_message) }

\* line 401
starts_with_question(normalized_message) ==
  \E i \in DOMAIN question_starters :
    startswith(normalized_message, question_starters[i])

\* line 408
short_without_business(normalized_message) ==
  /\ split_len(normalized_message) < 4
  /\ ~any_in(business_keywords, normalized_message)

\* variant: the scan returns the last key of the catalog that has a phrase
\* in the message
match_cascade_last_key(normalized_message) ==
  LET hits == phrase_hits(normalized_message)
  IN  IF hits # {}
        THEN [ step |-> 2,
               intention |->
                 INTENTIONS[IntentionKeys[CHOOSE k \in hits : \A j \in hits : k >= j]] ]
      ELSE [ step |-> 6, intention |-> INTENTIONS.conversacion_general ]

\* variant: the entity words are looked for before the question test
match_cascade_entities_first(normalized_message) ==
  LET hits == phrase_hits(normalized_message)
  IN  IF hits # {}
        THEN [ step |-> 2,
               intention |->
                 INTENTIONS[IntentionKeys[CHOOSE k \in hits : \A j \in hits : k <= j]] ]
      ELSE IF any_in(cliente_words, normalized_message)
        THEN [ step |-> 5, intention |-> INTENTIONS.listar_clientes ]
      ELSE IF starts_with_question(normalized_message)
        THEN [ step |-> 3, intention |-> INTENTIONS.conversacion_general ]
      ELSE [ step |-> 6, intention |-> INTENTIONS.conversacion_general ]

\* variant: every message of fewer than 4 words is small talk
match_cascade_short_is_talk(normalized_message) ==
  LET hits == phrase_hits(normalized_message)
  IN  IF hits # {}
        THEN [ step |-> 2,
               intention |->
                 INTENTIONS[IntentionKeys[CHOOSE k \in hits : \A j \in hits : k <= j]] ]
      ELSE IF starts_with_question(normalized_message)
        THEN [ step |-> 3, intention |-> INTENTIONS.conversacion_general ]
      ELSE IF split_len(normalized_message) < 4
        THEN [ step |-> 4, intention |-> INTENTIONS.conversacion_general ]
      ELSE IF any_in(cliente_words, normalized_message)
        THEN [ step |-> 5, intention |-> INTENTIONS.listar_clientes ]
      ELSE [ step |-> 6, intention |-> INTENTIONS.conversacion_general ]

\* match_intention, lines 391-430, with the return statement that is
\* taken: 2 the phrase scan, 3 the question test, 4 the short message,
\* 5 the entity words, 6 the default
match_cascade(normalized_message) ==
  LET hits == phrase_hits(normalized_message)
  IN  IF hits # {}
        THEN [ step |-> 2,
               intention |->
                 INTENTIONS[IntentionKeys[CHOOSE k \in hits : \A j \in hits : k <= j]] ]
      ELSE IF starts_with_question(normalized_message)
        THEN [ step |-> 3, intention |-> INTENTIONS.conversacion_general ]
      ELSE IF short_without_business(normalized_message)
        THEN [ step |-> 4, intention |-> INTENTIONS.conversacion_general ]
      ELSE IF any_in(cliente_words, normalized_message)
        THEN [ step |-> 5, intention |-> INTENTIONS.listar_clientes ]
      ELSE IF any_in(producto_words, normalized_message)
        THEN [ step |-> 5, intention |-> INTENTIONS.listar_productos ]
      ELSE IF any_in(venta_words, normalized_message)
        THEN [ step |-> 5, intention |-> INTENTIONS.crear_venta ]
      ELSE IF any_in(factura_words, normalized_message)
        THEN [ step |-> 5, intention |-> INTENTIONS.generar_factura ]
      ELSE [ step |-> 6, intention |-> INTENTIONS.conversacion_general ]

\* steps of match_intention after the confirmation/negation test
match_patterns(normalized_message) == match_cascade(normalized_message).intention

\* variant: a matcher that treats confirmation words as ordinary text
match_intention_no_keywords(message) ==
  match_patterns(normalize_text(message))

\* variant: a matcher that knows a delete intention for customers
match_intention_with_delete(message) ==
  LET normalized_message == normalize_text(message)
  IN  IF \/ in_list(normalized_message, confirmation_messages)
         \/ in_list(normalized_message, negation_messages)
        THEN NoIntention
      ELSE IF contains(normalized_message, <<"c","l","i","e","n","t","e">>)
        THEN [ key |-> "eliminar_cliente", type |-> "eliminacion",
               entities |-> <<"cliente">>, action |-> "eliminar" ]
      ELSE match_patterns(normalized_message)

match_intention(message) ==
  LET normalized_message == normalize_text(message)
  IN  IF \/ in_list(normalized_message, confirmation_messages)
         \/ in_list(normalized_message, negation_messages)
        THEN NoIntention
      ELSE match_patterns(normalized_message)

\* the return statement match_intention takes: 1 is line 389
match_step(message) ==
  LET normalized_message == normalize_text(message)
  IN  IF \/ in_list(normalized_message, confirmation_messages)
         \/ in_list(normalized_message, negation_messages)
        THEN 1
      ELSE match_cascade(normalized_message).step

(***************************************************************************)
(* Values exchanged with the classifier and the storage collaborator       *)
(***************************************************************************)
Null == "NULL"

\* a field -> value mapping with no field (the Python {} of an entity)
NoFields == << >>

\* extracted_data as Python sees it: None, a non-mapping JSON value, or a
\* mapping entity name -> (field -> value)
NullData == [ kind |-> "null", m |-> << >> ]
TextData == [ kind |-> "text", m |-> << >> ]
MapData(m) == [ kind |-> "map", m |-> m ]
EmptyData == MapData(<< >>)

\* dict.get(entity, {}) on extracted_data (only called on a mapping)
get_entity(extracted_data, entity) ==
  IF entity \in DOMAIN extracted_data.m
    THEN extracted_data.m[entity] ELSE NoFields

\* dict.get(field): None when the field is absent
get_field(info, field) == IF field \in DOMAIN info THEN info[field] ELSE Null

(***************************************************************************)
(* database/models.py and database/crud.py                                 *)
(***************************************************************************)
ClienteColumns == {"id", "nombre", "email", "telefono"}
ProductoColumns == {"id", "nombre", "precio", "stock"}

EmptyDb ==
  [ clientes |-> << >>, productos |-> << >>, ventas |-> << >>,
    detalles |-> << >>, facturas |-> << >> ]

Ids(table) == { table[i].id : i \in DOMAIN table }

\* primary key generated for a new row
NextId(table) ==
  IF table = << >> THEN 1
  ELSE 1 + (CHOOSE n \in Ids(table) : \A k \in Ids(table) : k <= n)

\* the outcome of a storage primitive: it raised, or it returned `row`
\* (NoRow for None) / `found` and left the tables as `db`
NoRow == << >>
Raised(db) == [ raised |-> TRUE, row |-> NoRow, found |-> FALSE, db |-> db ]
Returned(db, row, found) ==
  [ raised |-> FALSE, row |-> row, found |-> found, db |-> db ]

get_cliente(db, cliente_id) ==
  IF \E i \in DOMAIN db.clientes : db.clientes[i].id = cliente_id
    THEN db.clientes[CHOOSE i \in DOMAIN db.clientes :
                        db.clientes[i].id = cliente_id]
    ELSE NoRow

create_cliente(db, cliente_data) ==
  LET id == IF "id" \in DOMAIN cliente_data
              THEN cliente_data["id"] ELSE NextId(db.clientes)
      row == [ c \in ClienteColumns |->
                 IF c = "id" THEN id ELSE get_field(cliente_data, c) ]
  IN  IF ~(DOMAIN cliente_data \subseteq ClienteColumns)
        THEN Raised(db)                         \* Cliente(**data): TypeError
      ELSE IF \/ row["nombre"] = Null           \* nullable=False
              \/ id \in Ids(db.clientes)        \* primary key
              \/ /\ row["email"] # Null         \* unique=True
                 /\ \E i \in DOMAIN db.clientes :
                      db.clientes[i]["email"] = row["email"]
        THEN Raised(db)                         \* IntegrityError at commit
      ELSE Returned([db EXCEPT !.clientes = Append(@, row)], row, TRUE)

\* variant: the row is replaced, columns that are not supplied become NULL
update_cliente_replace(db, cliente_id, cliente_data) ==
  LET old == get_cliente(db, cliente_id)
      new == [ c \in ClienteColumns |->
                 IF c \in DOMAIN cliente_data THEN cliente_data[c]
                 ELSE IF c = "nombre" THEN old[c] ELSE Null ]
  IN  IF old = NoRow THEN Returned(db, NoRow, FALSE)
      ELSE Returned(
             [db EXCEPT !.clientes =
                [ i \in DOMAIN @ |-> IF @[i].id = cliente_id THEN new ELSE @[i] ]],
             new, TRUE)

update_cliente(db, cliente_id, cliente_data) ==
  LET old == get_cliente(db, cliente_id)
      new == [ c \in ClienteColumns |->
                 IF c \in DOMAIN cliente_data THEN cliente_data[c] ELSE old[c] ]
      others == { i \in DOMAIN db.clientes : db.clientes[i].id # cliente_id }
  IN  IF old = NoRow THEN Returned(db, NoRow, FALSE)
      ELSE IF \/ new["nombre"] = Null
              \/ \E i \in others : db.clientes[i].id = new["id"]
              \/ /\ new["email"] # Null
                 /\ \E i \in others : db.clientes[i]["email"] = new["email"]
        THEN Raised(db)
      ELSE Returned(
             [db EXCEPT !.clientes =
                [ i \in DOMAIN @ |-> IF @[i].id = cliente_id THEN new ELSE @[i] ]],
             new, TRUE)

\* models.py: Cliente.ventas and Producto.detalles_venta are relationships
\* without delete cascade, so session.delete of the parent sets the foreign
\* key of its children to NULL before the parent's row is deleted
\* (NoId: NULL in an integer column; generated keys start at 1)
NoId == 0
orphan(rows, column, parent_id) ==
  [ i \in DOMAIN rows |->
      IF rows[i][column] = parent_id
        THEN [ rows[i] EXCEPT ![column] = NoId ] ELSE rows[i] ]

delete_cliente(db, cliente_id) ==
  IF get_cliente(db, cliente_id) = NoRow THEN Returned(db, NoRow, FALSE)
  ELSE Returned(
         [db EXCEPT !.clientes = SelectSeq(@, LAMBDA r : r.id # cliente_id),
                    !.ventas = orphan(@, "cliente_id", cliente_id)],
         NoRow, TRUE)

get_producto(db, producto_id) ==
  IF \E i \in DOMAIN db.productos : db.productos[i].id = producto_id
    THEN db.productos[CHOOSE i \in DOMAIN db.productos :
                         db.productos[i].id = producto_id]
    ELSE NoRow

create_producto(db, producto_data) ==
  LET id == IF "id" \in DOMAIN producto_data
              THEN producto_data["id"] ELSE NextId(db.productos)
      row == [ c \in ProductoColumns |->
                 IF c = "id" THEN id
                 ELSE IF c = "stock" /\ "stock" \notin DOMAIN producto_data
                   THEN 0                        \* default=0
                 ELSE producto_data[c] ]
  IN  IF ~(DOMAIN producto_data \subseteq ProductoColumns)
        THEN Raised(db)
      ELSE IF \/ "nombre" \notin DOMAIN producto_data    \* nullable=False
              \/ "precio" \notin DOMAIN producto_data
              \/ id \in Ids(db.productos)
        THEN Raised(db)
      ELSE Returned([db EXCEPT !.productos = Append(@, row)], row, TRUE)

update_producto(db, producto_id, producto_data) ==
  LET old == get_producto(db, producto_id)
      new == [ c \in ProductoColumns |->
                 IF c \in DOMAIN producto_data THEN producto_data[c] ELSE old[c] ]
      others == { i \in DOMAIN db.productos : db.productos[i].id # producto_id }
  IN  IF old = NoRow THEN Returned(db, NoRow, FALSE)
      ELSE IF \E i \in others : db.productos[i].id = new["id"]
        THEN Raised(db)
      ELSE Returned(
             [db EXCEPT !.productos =
                [ i \in DOMAIN @ |-> IF @[i].id = producto_id THEN new ELSE @[i] ]],
             new, TRUE)

delete_producto(db, producto_id) ==
  IF get_producto(db, producto_id) = NoRow THEN Returned(db, NoRow, FALSE)
  ELSE Returned(
         [db EXCEPT !.productos = SelectSeq(@, LAMBDA r : r.id # producto_id),
                    !.detalles = orphan(@, "producto_id", producto_id)],
         NoRow, TRUE)

(***************************************************************************)
(* agent.py: AgentService.execute_action                                   *)
(***************************************************************************)
\* what execute_action hands back: it raised, or it returned `result`
NoResult == [ rkind |-> "none", rows |-> << >>, row |-> NoRow, success |-> FALSE ]
Result(rkind, rows, row, success) ==
  [ rkind |-> rkind, rows |-> rows, row |-> row, success |-> success ]

ExecRaised(db) == [ raised |-> TRUE, result |-> NoResult, db |-> db, calls |-> {} ]
ExecReturned(db, result, calls) ==
  [ raised |-> FALSE, result |-> result, db |-> db, calls |-> calls ]

NotImplemented == Result("no_implementada", << >>, NoRow, FALSE)
DataError == Result("error_datos", << >>, NoRow, FALSE)

has(intention, entity) == entity \in Range(intention.entities)

\* `not info.get("id")`: the id is absent or zero
falsy_id(info) == "id" \notin DOMAIN info \/ info["id"] = 0

\* variant: update and delete go to the storage without looking for the id
execute_action_unvalidated(intention, extracted_data, db, db_fails) ==
  IF intention.action \in {"actualizar", "eliminar"}
    THEN IF db_fails THEN ExecRaised(db)
         ELSE ExecReturned(db, Result("delete", << >>, NoRow, FALSE),
                           {<<"delete", "cliente">>})
  ELSE ExecReturned(db, NotImplemented, {})

\* variant: an action without a branch raises
execute_action_strict(intention, extracted_data, db, db_fails) ==
  IF intention.action \in {"listar", "crear", "actualizar", "eliminar"}
       /\ (has(intention, "cliente") \/ has(intention, "producto"))
    THEN ExecReturned(db, DataError, {})
  ELSE ExecRaised(db)

\* execute_action.model_to_dict: the columns of a row as a mapping, a
\* datetime rendered by isoformat(); None for None
DatetimeColumns ==
  {"fecha_registro", "fecha_creacion", "fecha_venta", "fecha_emision"}
isoformat(moment) ==
  IF moment = <<2024, 1, 31>> THEN "2024-01-31T00:00:00" ELSE "other"
model_to_dict(model_instance) ==
  [ c \in DOMAIN model_instance |->
      IF c \in DatetimeColumns /\ model_instance[c] # Null
        THEN isoformat(model_instance[c]) ELSE model_instance[c] ]

\* variant: a list intention with several entities lists the last of
\* customer, product, sale, invoice it names
execute_action_last_listed(intention, extracted_data, db, db_fails) ==
  LET list(rkind, rows) ==
        ExecReturned(db, Result(rkind, [ i \in DOMAIN rows |-> model_to_dict(rows[i]) ],
                                NoRow, FALSE), {<<"get", rkind>>})
  IN  IF intention.action # "listar" THEN ExecReturned(db, NotImplemented, {})
      ELSE IF has(intention, "factura") THEN list("facturas", db.facturas)
      ELSE IF has(intention, "venta") THEN list("ventas", db.ventas)
      ELSE IF has(intention, "producto") THEN list("productos", db.productos)
      ELSE IF has(intention, "cliente") THEN list("clientes", db.clientes)
      ELSE ExecReturned(db, NotImplemented, {})

\* db_fails: the storage collaborator is unavailable, every primitive raises
execute_action(intention, extracted_data, db, db_fails) ==
  LET is_map == extracted_data.kind = "map"
      list(rkind, rows) ==
        IF db_fails THEN ExecRaised(db)
        ELSE ExecReturned(db, Result(rkind,
                               [ i \in DOMAIN rows |-> model_to_dict(rows[i]) ],
                               NoRow, FALSE), {<<"get", rkind>>})
      create(entity, op(_, _)) ==
        IF ~is_map THEN ExecRaised(db)          \* .get on None: AttributeError
        ELSE LET r == op(db, get_entity(extracted_data, entity))
             IN  IF db_fails \/ r.raised THEN ExecRaised(db)
                 ELSE ExecReturned(r.db, Result(entity, << >>, model_to_dict(r.row), FALSE),
                                   {<<"create", entity>>})
      update(entity, op(_, _, _)) ==
        IF ~is_map THEN ExecRaised(db)
        ELSE LET info == get_entity(extracted_data, entity)
                 r == op(db, info["id"], info)
             IN  IF falsy_id(info)
                   THEN ExecReturned(db, DataError, {})     \* ValueError
                 ELSE IF db_fails \/ r.raised THEN ExecRaised(db)
                 ELSE ExecReturned(r.db, Result(entity, << >>, model_to_dict(r.row), FALSE),
                                   {<<"update", entity>>})
      delete(entity, op(_, _)) ==
        IF ~is_map THEN ExecRaised(db)
        ELSE LET info == get_entity(extracted_data, entity)
                 r == op(db, info["id"])
             IN  IF falsy_id(info)
                   THEN ExecReturned(db, DataError, {})     \* ValueError
                 ELSE IF db_fails \/ r.raised THEN ExecRaised(db)
                 ELSE ExecReturned(r.db, Result("delete", << >>, NoRow, r.found),
                                   {<<"delete", entity>>})
  IN  CASE intention.action = "listar" /\ has(intention, "cliente") ->
             list("clientes", db.clientes)
        [] intention.action = "listar" /\ ~has(intention, "cliente")
             /\ has(intention, "producto") ->
             list("productos", db.productos)
        [] intention.action = "listar" /\ ~has(intention, "cliente")
             /\ ~has(intention, "producto") /\ has(intention, "venta") ->
             list("ventas", db.ventas)
        [] intention.action = "listar" /\ ~has(intention, "cliente")
             /\ ~has(intention, "producto") /\ ~has(intention, "venta")
             /\ has(intention, "factura") ->
             list("facturas", db.facturas)
        [] intention.action = "crear" /\ has(intention, "cliente") ->
             create("cliente", create_cliente)
        [] intention.action = "crear" /\ ~has(intention, "cliente")
             /\ has(intention, "producto") ->
             create("producto", create_producto)
        [] intention.action = "actualizar" /\ has(intention, "cliente") ->
             update("cliente", update_cliente)
        [] intention.action = "actualizar" /\ ~has(intention, "cliente")
             /\ has(intention, "producto") ->
             update("producto", update_producto)
        [] intention.action = "eliminar" /\ has(intention, "cliente") ->
             delete("cliente", delete_cliente)
        [] intention.action = "eliminar" /\ ~has(intention, "cliente")
             /\ has(intention, "producto") ->
             delete("producto", delete_producto)
        [] OTHER -> ExecReturned(db, NotImplemented, {})

\* format_response raises when the record to print is None
format_raises(result) ==
  result.rkind \in {"cliente", "producto"} /\ result.row = NoRow

orphan_replies ==
  << <<"s","i'">>,
     <<"s","i">>,
     <<"s">>,
     <<"y","e","s">>,
     <<"n","o">>,
     <<"n">>,
     <<"c","a","n","c","e","l">>,
     <<"c","a","n","c","e","l","a","r">> >>

greetings ==
  << <<"h","o","l","a">>,
     <<"b","u","e","n","o","s"," ","d","i","a","s">>,
     <<"b","u","e","n","a","s"," ","t","a","r","d","e","s">>,
     <<"b","u","e","n","a","s"," ","n","o","c","h","e","s">>,
     <<"s","a","l","u","d","o","s">> >>

goodbyes ==
  << <<"a","d","i","o","s">>,
     <<"h","a","s","t","a"," ","l","u","e","g","o">>,
     <<"n","o","s"," ","v","e","m","o","s">>,
     <<"c","h","a","o">>,
     <<"b","y","e">> >>

thanks ==
  << <<"g","r","a","c","i","a","s">>,
     <<"m","u","c","h","a","s"," ","g","r","a","c","i","a","s">>,
     <<"t","e"," ","a","g","r","a","d","e","z","c","o">>,
     <<"t","h","a","n","k","s">> >>

identity_questions ==
  << <<"q","u","i","e","n"," ","e","r","e","s">>,
     <<"q","u","i","e'","n"," ","e","r","e","s">>,
     <<"c","o","m","o"," ","t","e"," ","l","l","a","m","a","s">>,
     <<"c","o'","m","o"," ","t","e"," ","l","l","a","m","a","s">>,
     <<"t","u"," ","n","o","m","b","r","e">>,
     <<"q","u","e'"," ","e","r","e","s">> >>

capability_questions ==
  << <<"q","u","e'"," ","p","u","e","d","e","s"," ","h","a","c","e","r">>,
     <<"q","u","e"," ","p","u","e","d","e","s"," ","h","a","c","e","r">>,
     <<"c","o'","m","o"," ","f","u","n","c","i","o","n","a">>,
     <<"c","o","m","o"," ","f","u","n","c","i","o","n","a">>,
     <<"a","y","u","d","a">>,
     <<"a","y","u'","d","a","m","e">>,
     <<"h","e","l","p">> >>

(***************************************************************************)
(* agent.py: classifier adapter (intention_chain = prompt | llm | parser)  *)
(***************************************************************************)
\* the labels the model puts in intention / entities / action
OtherLabels == [ intention |-> "otro", entities |-> <<"otro">>, action |-> "otro" ]
DeleteLabels ==
  [ intention |-> "eliminacion", entities |-> <<"cliente">>, action |-> "eliminar" ]

\* a decoded JSON value: a non-empty object, the empty object, or a list
Payload(labels, has_extracted_data, extracted_data) ==
  [ pkind |-> "dict", labels |-> labels, has_ed |-> has_extracted_data,
    ed |-> extracted_data ]
EmptyObject == [ pkind |-> "empty_dict", labels |-> OtherLabels, has_ed |-> FALSE,
                 ed |-> NullData ]
JsonList == [ pkind |-> "list", labels |-> OtherLabels, has_ed |-> FALSE,
              ed |-> NullData ]

DefaultPayload == Payload(OtherLabels, TRUE, EmptyData)

\* what the external model does: the call raises ("fail"), or it answers a
\* text of one of these shapes, `value` being the JSON value the text holds
LlmFail == [ shape |-> "fail", value |-> EmptyObject ]
LlmText(shape, value) == [ shape |-> shape, value |-> value ]

\* RobustJsonOutputParser.parse
parse(text) ==
  CASE text.shape = "json" -> text.value              \* super().parse(text)
    [] text.shape = "embedded_object" -> text.value   \* re.search({...}) + loads
    [] text.shape = "embedded_list" -> text.value     \* re.search([...]) + loads
    [] text.shape = "undecodable" -> DefaultPayload   \* json.loads raises
    [] OTHER -> DefaultPayload                        \* no JSON in the text

(***************************************************************************)
(* agent.py: AgentService state, replies                                   *)
(***************************************************************************)
Triple(intention) ==
  [ type |-> intention.type, entities |-> intention.entities,
    action |-> intention.action ]
NoTriple == Triple(NoIntention)

\* variant: the purpose names the action only
Purpose_action_only(intention) ==
  [ action |-> intention.action, entities |-> << >> ]

\* f"Realizar {action} en {', '.join(entities)}"
Purpose(intention) ==
  [ action |-> intention.action, entities |-> intention.entities ]
NoPurpose == [ action |-> "none", entities |-> << >> ]

IdleAgent ==
  [ pending_action |-> NoIntention, pending_data |-> NullData,
    current_purpose |-> NoPurpose ]

\* {"status", "message", "data"}: `kind` stands for the message text,
\* intention/extracted_data/result for the data the reply carries
Reply(status, kind, intention, extracted_data, result) ==
  [ status |-> status, kind |-> kind, intention |-> Triple(intention),
    extracted_data |-> extracted_data, result |-> result ]
NoReply == Reply("none", "none", NoIntention, NullData, NoResult)
ErrorReply(kind) == Reply("error", kind, NoIntention, NullData, NoResult)
ConversationReply(kind) == Reply("success", kind, NoIntention, NullData, NoResult)

\* what a stretch of process_message between two suspension points did
Segment(agent, db, reply, suspend, info) ==
  [ agent |-> agent, db |-> db, reply |-> reply, suspend |-> suspend,
    dispatched |-> info.dispatched, disp_intent |-> info.disp_intent,
    disp_data |-> info.disp_data, exec_raised |-> info.exec_raised,
    calls |-> info.calls, matcher_called |-> info.matcher_called ]
NoDispatch ==
  [ dispatched |-> FALSE, disp_intent |-> NoIntention, disp_data |-> NullData,
    exec_raised |-> FALSE, calls |-> {}, matcher_called |-> FALSE ]
MatcherOnly == [NoDispatch EXCEPT !.matcher_called = TRUE]

\* variant: thanks are looked for before greetings and farewells
conversation_type_thanks_first(message) ==
  LET message_lower == lower(message)
  IN  IF any_in(thanks, message_lower) THEN "thanks"
      ELSE IF any_in(greetings, message_lower) THEN "greeting"
      ELSE IF any_in(goodbyes, message_lower) THEN "goodbye"
      ELSE IF any_in(identity_questions, message_lower) THEN "identity"
      ELSE IF any_in(capability_questions, message_lower) THEN "capabilities"
      ELSE "llm"

\* AgentService.handle_conversation up to the model call:
\* the category that answers, or "llm" when the model is asked
conversation_type(message) ==
  LET message_lower == lower(message)
  IN  IF any_in(greetings, message_lower) THEN "greeting"
      ELSE IF any_in(goodbyes, message_lower) THEN "goodbye"
      ELSE IF any_in(thanks, message_lower) THEN "thanks"
      ELSE IF any_in(identity_questions, message_lower) THEN "identity"
      ELSE IF any_in(capability_questions, message_lower) THEN "capabilities"
      ELSE "llm"

\* variant: a failure of the model call ends the turn with an error and
\* clears the state
handle_conversation_resume_failing(agent, db, llm_ok) ==
  IF llm_ok
    THEN Segment(agent, db, ConversationReply("general"), "none", MatcherOnly)
  ELSE Segment(IdleAgent, db, ErrorReply("process_error"), "none", MatcherOnly)

\* AgentService.handle_conversation after the model call
handle_conversation_resume(agent, db, llm_ok) ==
  Segment(agent, db,
          ConversationReply(IF llm_ok THEN "general" ELSE "fallback"),
          "none", MatcherOnly)

\* variant: an error payload returned by execute_action gives status error
confirm_branch_payload_checked(agent, db, db_fails) ==
  LET ex == execute_action(agent.pending_action, agent.pending_data, db, db_fails)
      info == [ dispatched |-> TRUE, disp_intent |-> agent.pending_action,
                disp_data |-> agent.pending_data, exec_raised |-> ex.raised,
                calls |-> ex.calls, matcher_called |-> FALSE ]
  IN  IF ex.raised
        THEN Segment(agent, ex.db, ErrorReply("process_error"), "none", info)
      ELSE IF format_raises(ex.result) \/ ex.result \in {DataError, NotImplemented}
        THEN Segment(IdleAgent, ex.db, ErrorReply("process_error"), "none", info)
      ELSE Segment(IdleAgent, ex.db,
                   Reply("success", "executed", agent.pending_action,
                         NullData, ex.result),
                   "none", info)

\* AgentService.process_message, lines 308-345 and 418-424: a pending
\* action exists
confirm_branch(agent, db, db_fails) ==
  LET ex == execute_action(agent.pending_action, agent.pending_data, db, db_fails)
      info == [ dispatched |-> TRUE, disp_intent |-> agent.pending_action,
                disp_data |-> agent.pending_data, exec_raised |-> ex.raised,
                calls |-> ex.calls, matcher_called |-> FALSE ]
  IN  IF ex.raised
        \* the exception leaves the try block before the state is cleared
        THEN Segment(agent, ex.db, ErrorReply("process_error"), "none", info)
      ELSE IF format_raises(ex.result)
        THEN Segment(IdleAgent, ex.db, ErrorReply("process_error"), "none", info)
      ELSE Segment(IdleAgent, ex.db,
                   Reply("success", "executed", agent.pending_action,
                         NullData, ex.result),
                   "none", info)

\* AgentService.process_message, lines 346-362: no pending action, up to
\* the call of the classifier
fresh_branch(agent, db, message) ==
  LET message_lower == strip(lower(message))
  IN  IF in_list(message_lower, orphan_replies)
        THEN Segment(agent, db, ErrorReply("nothing_pending"), "none", NoDispatch)
      ELSE Segment(agent, db, NoReply, "classify", NoDispatch)

\* variant: a negative reply discards the pending action
process_message_gated(agent, db, message, db_fails) ==
  IF agent.pending_action # NoIntention
    THEN IF in_list(normalize_text(message), NEGATION_KEYWORDS)
           THEN Segment(IdleAgent, db, ConversationReply("cancelled"), "none",
                        NoDispatch)
           ELSE confirm_branch(agent, db, db_fails)
    ELSE fresh_branch(agent, db, message)

\* AgentService.process_message from its entry to the first suspension point
process_message(agent, db, message, db_fails) ==
  IF agent.pending_action # NoIntention
    THEN confirm_branch(agent, db, db_fails)
    ELSE fresh_branch(agent, db, message)

\* AgentService.process_message from the return of intention_chain.ainvoke
\* to the next suspension point
process_message_resume(agent, db, message, llm_out) ==
  LET intention_analysis == parse(llm_out)
      intention == match_intention(message)
      pending_data == IF intention_analysis.has_ed
                        THEN intention_analysis.ed ELSE EmptyData
  IN  IF llm_out.shape = "fail"
        THEN Segment(agent, db, ErrorReply("analysis_error"), "none", NoDispatch)
      ELSE IF intention_analysis.pkind # "dict"
        THEN Segment(agent, db, ErrorReply("analysis_error"), "none", NoDispatch)
      ELSE IF intention = NoIntention
        THEN Segment(agent, db, ErrorReply("no_intention"), "none", MatcherOnly)
      ELSE IF intention.type = "conversacion"
        THEN IF conversation_type(message) = "llm"
               THEN Segment(agent, db, NoReply, "respond", MatcherOnly)
             ELSE Segment(agent, db,
                          ConversationReply(conversation_type(message)),
                          "none", MatcherOnly)
      ELSE Segment([ pending_action |-> intention, pending_data |-> pending_data,
                     current_purpose |-> Purpose(intention) ],
                   db,
                   Reply("confirmation_required", "confirm", intention,
                         pending_data, NoResult),
                   "none", MatcherOnly)

(***************************************************************************)
(* session_manager.py                                                      *)
(***************************************************************************)
\* the JSON record of one conversation; NoRecord: no file for the id
NoRecord ==
  [ exists |-> FALSE, pending_action |-> NoTriple, pending_data |-> NullData,
    current_purpose |-> NoPurpose ]

\* variant: a save that writes only when an action is pending
save_session_only_pending(store, session_id, state) ==
  IF state.pending_action = NoIntention THEN store
  ELSE [ store EXCEPT ![session_id] =
           [ exists |-> TRUE,
             pending_action |-> Triple(state.pending_action),
             pending_data |-> state.pending_data,
             current_purpose |-> state.current_purpose ] ]

save_session(store, session_id, state) ==
  [ store EXCEPT ![session_id] =
      [ exists |-> TRUE,
        pending_action |-> IF state.pending_action # NoIntention
                             THEN Triple(state.pending_action) ELSE NoTriple,
        pending_data |-> state.pending_data,
        current_purpose |-> state.current_purpose ] ]

\* variant: a comparison that looks at the category and the entities only
triple_matches_ignoring_action(intention_obj, intention_data) ==
  /\ intention_obj.type = intention_data.type
  /\ Range(intention_obj.entities) = Range(intention_data.entities)

\* reconstruct_intention, lines 226-228: the comparison with a catalog entry
triple_matches(intention_obj, intention_data) ==
  /\ intention_obj.type = intention_data.type
  /\ intention_obj.action = intention_data.action
  /\ Range(intention_obj.entities) = Range(intention_data.entities)

\* the positions of the catalog entries the loop of lines 224-230 accepts
matching_entries(intention_data) ==
  { k \in DOMAIN IntentionKeys :
      triple_matches(INTENTIONS[IntentionKeys[k]], intention_data) }

\* variant: a reconstruction that wants the entity labels in catalog order
reconstruct_intention_ordered(intention_data) ==
  LET found == { k \in DOMAIN IntentionKeys :
                   Triple(INTENTIONS[IntentionKeys[k]]) = intention_data }
  IN  IF found = {} THEN NoIntention
      ELSE INTENTIONS[IntentionKeys[CHOOSE k \in found : \A j \in found : k <= j]]

reconstruct_intention(intention_data) ==
  LET found == matching_entries(intention_data)
  IN  IF \/ intention_data.type = "none" \/ intention_data.action = "none"
         \/ intention_data.entities = << >>
        THEN NoIntention
      ELSE IF found = {} THEN NoIntention
      ELSE INTENTIONS[IntentionKeys[CHOOSE k \in found : \A j \in found : k <= j]]

\* variant: a load that clears the field when reconstruction fails
load_session_null_on_failure(store, session_id) ==
  LET data == store[session_id]
      reconstructed_intention == reconstruct_intention(data.pending_action)
  IN  IF reconstructed_intention # NoIntention
        THEN [ pending |-> "intention", pending_action |-> reconstructed_intention,
               raw |-> NoTriple, pending_data |-> data.pending_data,
               current_purpose |-> data.current_purpose ]
      ELSE [ pending |-> "none", pending_action |-> NoIntention,
             raw |-> NoTriple, pending_data |-> data.pending_data,
             current_purpose |-> data.current_purpose ]

\* variant: a load that answers a default action when there is no record
load_session_default_action(store, session_id) ==
  IF ~store[session_id].exists
    THEN [ pending |-> "intention", pending_action |-> INTENTIONS.listar_clientes,
           raw |-> NoTriple, pending_data |-> NullData,
           current_purpose |-> NoPurpose ]
    ELSE load_session_null_on_failure(store, session_id)

\* the loaded state: `pending` tells what the pending_action field holds: an
\* Intention object ("intention", in pending_action), the raw triple of the
\* record that could not be reconstructed ("raw", in raw), or None
load_session(store, session_id) ==
  LET data == store[session_id]
      reconstructed_intention == reconstruct_intention(data.pending_action)
  IN  IF ~data.exists \/ data.pending_action = NoTriple
        THEN [ pending |-> "none", pending_action |-> NoIntention,
               raw |-> NoTriple, pending_data |-> data.pending_data,
               current_purpose |-> data.current_purpose ]
      ELSE IF reconstructed_intention # NoIntention
        THEN [ pending |-> "intention", pending_action |-> reconstructed_intention,
               raw |-> NoTriple, pending_data |-> data.pending_data,
               current_purpose |-> data.current_purpose ]
      ELSE [ pending |-> "raw", pending_action |-> NoIntention,
             raw |-> data.pending_action, pending_data |-> data.pending_data,
             current_purpose |-> data.current_purpose ]

(***************************************************************************)
(* main.py: process_test_message                                           *)
(***************************************************************************)
\* variant: a triple that could not be reconstructed is restored as it is
restore_agent_trusting(session_state) ==
  IF session_state.pending = "intention"
    THEN [ pending_action |-> session_state.pending_action,
           pending_data |-> session_state.pending_data,
           current_purpose |-> session_state.current_purpose ]
    ELSE IF session_state.pending = "raw"
      THEN [ pending_action |->
               [ key |-> "raw", type |-> session_state.raw.type,
                 entities |-> session_state.raw.entities,
                 action |-> session_state.raw.action ],
             pending_data |-> session_state.pending_data,
             current_purpose |-> session_state.current_purpose ]
    ELSE IdleAgent

\* restore the state of the shared AgentService from the loaded session
restore_agent(session_state) ==
  IF session_state.pending = "intention"
    THEN [ pending_action |-> session_state.pending_action,
           pending_data |-> session_state.pending_data,
           current_purpose |-> session_state.current_purpose ]
    ELSE IdleAgent

(***************************************************************************)
(* Bounded inputs                                                          *)
(***************************************************************************)
\* number of customers the storage holds before the first message
MaxInitClientes == 1

Sessions == {"s1", "s2"}
Slots == {1, 2}

MsgSi == <<"s","i">>
MsgSiAcento == <<"S","I'">>
MsgNo == <<"n","o">>
MsgConfirmo == <<"c","o","n","f","i","r","m","o">>
MsgHola == <<"h","o","l","a">>
MsgBien == <<"b","i","e","n">>
MsgCrearCliente == <<"c","r","e","a","r"," ","c","l","i","e","n","t","e">>
MsgListarClientes ==
  <<"l","i","s","t","a","r"," ","c","l","i","e","n","t","e","s">>
MsgCrearVenta == <<"c","r","e","a","r"," ","v","e","n","t","a">>

Messages ==
  { MsgSi, MsgSiAcento, MsgNo, MsgConfirmo, MsgHola, MsgBien,
    MsgCrearCliente, MsgListarClientes, MsgCrearVenta }

\* the first message of the update scenario
MsgActualizarCliente ==
  <<"a","c","t","u","a","l","i","z","a","r"," ","c","l","i","e","n","t","e">>

\* every message some conversation of the model is driven with
AllMessages == Messages \cup { MsgActualizarCliente }

ClienteAna == MapData("cliente" :> ("nombre" :> "ana" @@ "email" :> "a@x"))

DataValues == { NullData, TextData, EmptyData, ClienteAna }

LlmOutputs ==
  { LlmFail }
    \cup { LlmText("json", Payload(OtherLabels, TRUE, d)) : d \in DataValues }
    \cup { LlmText("json", Payload(DeleteLabels, TRUE, ClienteAna)),
           LlmText("json", Payload(OtherLabels, FALSE, NullData)),
           LlmText("json", EmptyObject),
           LlmText("json", JsonList),
           LlmText("embedded_object", Payload(OtherLabels, TRUE, ClienteAna)),
           LlmText("embedded_list", JsonList),
           LlmText("plain", EmptyObject),
           LlmText("undecodable", EmptyObject) }

ClientePool ==
  << [ c \in ClienteColumns |->
         CASE c = "id" -> 1 [] c = "nombre" -> "bob" [] c = "email" -> "b@x"
           [] OTHER -> Null ],
     [ c \in ClienteColumns |->
         CASE c = "id" -> 2 [] c = "nombre" -> "eva" [] c = "email" -> Null
           [] OTHER -> Null ],
     [ c \in ClienteColumns |->
         CASE c = "id" -> 3 [] c = "nombre" -> "leo" [] c = "email" -> "l@x"
           [] OTHER -> Null ] >>

InitialDbs ==
  { [EmptyDb EXCEPT !.clientes = SubSeq(ClientePool, 1, n)] :
      n \in 0..(IF MaxInitClientes < Len(ClientePool)
                  THEN MaxInitClientes ELSE Len(ClientePool)) }

\* matcher results of the messages, computed once
MatchTable == [ m \in AllMessages |-> match_intention(m) ]

\* what a message is, for the history: the keyword set its normalized form
\* belongs to, and the catalog key the matcher resolves it to
MessageFacts(msg) ==
  [ keyword |-> IF in_list(normalize_text(msg), CONFIRMATION_KEYWORDS)
                  THEN "confirmation"
                ELSE IF in_list(normalize_text(msg), NEGATION_KEYWORDS)
                  THEN "negation" ELSE "none",
    intent |-> MatchTable[msg].key ]
NoFacts == [ keyword |-> "none", intent |-> "none" ]
FactsTable == [ m \in AllMessages |-> MessageFacts(m) ]

\* what the classifier call gave, for the history: it raised, or the parser
\* returned `payload` for a text of that `shape`
Analysis(llm_out) ==
  [ called |-> TRUE, failed |-> llm_out.shape = "fail", shape |-> llm_out.shape,
    payload |-> IF llm_out.shape = "fail" THEN EmptyObject ELSE parse(llm_out) ]
NoAnalysis ==
  [ called |-> FALSE, failed |-> FALSE, shape |-> "none", payload |-> EmptyObject ]

\* the part of a reply a later turn is compared with
Announcement(reply) ==
  [ status |-> reply.status, intention |-> reply.intention,
    extracted_data |-> reply.extracted_data ]

(***************************************************************************)
(* State                                                                   *)
(***************************************************************************)
VARIABLES
  agent,    \* AGENT_SERVICE: pending_action, pending_data, current_purpose
  db,       \* the tables of the storage collaborator
  store,    \* session_data/<id>.json, one record per conversation id
  turns,    \* requests in flight: where each coroutine is suspended
  replies,  \* history: the reply of the last completed turn of each id
  last,     \* history: what the turn that returned in the last step did
  call,     \* a direct call of the matcher or of the session store: its input
  ret       \* what that call returned

vars == <<agent, db, store, turns, replies, last, call, ret>>

\* no direct call was made, nothing was returned
NoCall == [ op |-> "none" ]
NoRet == [ op |-> "none" ]

FreeSlot ==
  [ pc |-> "free", sid |-> "none", msg |-> << >>, record |-> NoRecord,
    agent_start |-> IdleAgent, classifier_called |-> FALSE,
    analysis |-> NoAnalysis, matcher_called |-> FALSE ]

NoTurn ==
  [ done |-> FALSE, sid |-> "none", said |-> NoFacts, record |-> NoRecord,
    agent_start |-> IdleAgent, classifier_called |-> FALSE,
    analysis |-> NoAnalysis,
    matcher_called |-> FALSE, responder_called |-> FALSE,
    responder_llm |-> FALSE,
    dispatched |-> FALSE, disp_intent |-> NoIntention, disp_data |-> NullData,
    exec_raised |-> FALSE, calls |-> {}, reply |-> NoReply,
    agent_end |-> IdleAgent, prev_reply |-> Announcement(NoReply) ]

Init ==
  /\ agent = IdleAgent
  /\ db \in InitialDbs
  /\ store = [ s \in Sessions |-> NoRecord ]
  /\ turns = [ k \in Slots |-> FreeSlot ]
  /\ replies = [ s \in Sessions |-> Announcement(NoReply) ]
  /\ last = NoTurn
  /\ call = NoCall
  /\ ret = NoRet

\* process_test_message, lines 183-192: save the agent's state, return
Return(slot, t, seg, responder_llm) ==
  /\ agent' = seg.agent
  /\ db' = seg.db
  /\ store' = save_session(store, t.sid, seg.agent)
  /\ turns' = [turns EXCEPT ![slot] = FreeSlot]
  /\ replies' = [replies EXCEPT ![t.sid] = Announcement(seg.reply)]
  /\ last' = [ done |-> TRUE, sid |-> t.sid, said |-> FactsTable[t.msg],
               record |-> t.record, agent_start |-> t.agent_start,
               classifier_called |-> t.classifier_called,
               analysis |-> t.analysis,
               matcher_called |-> seg.matcher_called,
               responder_called |->
                 seg.reply.kind \in {"greeting", "goodbye", "thanks", "identity",
                                     "capabilities", "general", "fallback"},
               responder_llm |-> responder_llm,
               dispatched |-> seg.dispatched, disp_intent |-> seg.disp_intent,
               disp_data |-> seg.disp_data, exec_raised |-> seg.exec_raised,
               calls |-> seg.calls, reply |-> seg.reply,
               agent_end |-> seg.agent, prev_reply |-> replies[t.sid] ]

\* the coroutine suspends at an await of the external model
Suspend(slot, t, seg) ==
  /\ agent' = seg.agent
  /\ turns' = [turns EXCEPT ![slot] = [t EXCEPT !.pc = seg.suspend]]
  /\ last' = NoTurn
  /\ UNCHANGED <<db, store, replies>>

\* process_test_message, lines 149-180: load the session, restore the agent,
\* run process_message to its first suspension point or to its end
Begin(slot, sid, msg, db_fails) ==
  /\ turns[slot].pc = "free"
  /\ \E restored \in { restore_agent(load_session(store, sid)) } :
       \E seg \in { process_message(restored, db, msg, db_fails) } :
         \E t \in { [ pc |-> "start", sid |-> sid, msg |-> msg,
                      record |-> store[sid], agent_start |-> restored,
                      classifier_called |-> seg.suspend = "classify",
                      analysis |-> NoAnalysis, matcher_called |-> FALSE ] } :
           IF seg.suspend = "none"
             THEN Return(slot, t, seg, FALSE)
             ELSE Suspend(slot, t, seg)

\* intention_chain.ainvoke returns or raises: process_message goes on with
\* the state the shared AgentService holds at that moment
ClassifierReturns(slot, llm_out) ==
  /\ turns[slot].pc = "classify"
  /\ \E t \in { [turns[slot] EXCEPT !.analysis = Analysis(llm_out)] } :
       \E seg \in { process_message_resume(agent, db, t.msg, llm_out) } :
         IF seg.suspend = "none"
           THEN Return(slot, t, seg, FALSE)
           ELSE Suspend(slot, [t EXCEPT !.matcher_called = TRUE], seg)

\* llm.ainvoke of handle_conversation returns or raises
ResponderReturns(slot, llm_ok) ==
  /\ turns[slot].pc = "respond"
  /\ \E seg \in { handle_conversation_resume(agent, db, llm_ok) } :
       Return(slot, turns[slot], seg, TRUE)

AllFree == \A k \in Slots : turns[k].pc = "free"

\* the inputs each conversation is driven with: the first one with every
\* message and model output, the second one with a few
MessagesOf(sid) ==
  IF sid = "s1" THEN Messages ELSE { MsgNo, MsgCrearVenta }

LlmOutputsOf(sid) ==
  IF sid = "s1" THEN LlmOutputs
  ELSE { LlmFail, LlmText("json", Payload(OtherLabels, TRUE, EmptyData)) }

\* a message arrives while no other turn is in progress
ReceiveMessage ==
  \E sid \in Sessions, db_fails \in BOOLEAN :
    \E msg \in MessagesOf(sid) :
      AllFree /\ Begin(1, sid, msg, db_fails) /\ UNCHANGED <<call, ret>>

ClassifierAnswers ==
  \E slot \in Slots :
    \E llm_out \in LlmOutputsOf(turns[slot].sid) :
      ClassifierReturns(slot, llm_out) /\ UNCHANGED <<call, ret>>

ResponderAnswers ==
  \E slot \in Slots, llm_ok \in BOOLEAN :
    ResponderReturns(slot, llm_ok) /\ UNCHANGED <<call, ret>>

Next == ReceiveMessage \/ ClassifierAnswers \/ ResponderAnswers

\* turns are processed one after another
Spec == Init /\ [][Next]_vars

\* a message arrives for a conversation that has no turn in progress, while
\* a turn of the other conversation may be suspended at an await
InFlight(sid) == \E k \in Slots : turns[k].pc # "free" /\ turns[k].sid = sid

ReceiveMessageInterleaved ==
  \E sid \in Sessions, db_fails \in BOOLEAN :
    \E msg \in MessagesOf(sid), slot \in Slots :
      /\ ~InFlight(sid)
      /\ \A k \in Slots : k < slot => turns[k].pc # "free"
      /\ Begin(slot, sid, msg, db_fails)
      /\ UNCHANGED <<call, ret>>

NextInterleaved ==
  ReceiveMessageInterleaved \/ ClassifierAnswers \/ ResponderAnswers

\* turns of different conversations interleave at the awaits
SpecInterleaved == Init /\ [][NextInterleaved]_vars

\* one conversation on its own: its messages keep arriving while the
\* storage works, and every call of the external model returns or raises
ReceiveMessageAlone ==
  \E msg \in Messages, db_fails \in BOOLEAN :
    AllFree /\ Begin(1, "s1", msg, db_fails) /\ UNCHANGED <<call, ret>>

HealthyTurn ==
  \E msg \in Messages :
    AllFree /\ Begin(1, "s1", msg, FALSE) /\ UNCHANGED <<call, ret>>

NextAlone == ReceiveMessageAlone \/ ClassifierAnswers \/ ResponderAnswers

FairSpec ==
  /\ Init /\ [][NextAlone]_vars
  /\ WF_vars(HealthyTurn)
  /\ WF_vars(ClassifierAnswers)
  /\ WF_vars(ResponderAnswers)

(***************************************************************************)
(* The session store called directly                                       *)
(***************************************************************************)
\* pending_action triples a record can hold besides the ones save_session
\* writes: catalog triples with the entity labels in another order or
\* repeated, and triples that name no catalog entry or lack a part
ReorderedTriples ==
  { [ type |-> "venta", entities |-> <<"producto","venta","cliente">>,
      action |-> "procesar_venta" ],
    [ type |-> "venta", entities |-> <<"cliente","producto","venta">>,
      action |-> "procesar_venta" ],
    [ type |-> "facturacion", entities |-> <<"venta","factura">>,
      action |-> "generar_factura" ],
    [ type |-> "consulta", entities |-> <<"cliente","cliente">>,
      action |-> "listar" ] }

UnknownTriples ==
  { [ type |-> "inventario", entities |-> <<"cliente">>, action |-> "listar" ],
    [ type |-> "consulta", entities |-> <<"producto">>, action |-> "buscar" ],
    [ type |-> "registro", entities |-> <<"cliente","producto">>,
      action |-> "crear" ],
    [ type |-> "venta", entities |-> <<"venta","cliente">>,
      action |-> "procesar_venta" ],
    [ type |-> "consulta", entities |-> <<"otro">>, action |-> "listar" ],
    [ type |-> "none", entities |-> <<"cliente">>, action |-> "listar" ],
    [ type |-> "consulta", entities |-> <<"cliente">>, action |-> "none" ],
    [ type |-> "consulta", entities |-> << >>, action |-> "listar" ] }

CatalogTriples == { Triple(INTENTIONS[k]) : k \in DOMAIN INTENTIONS }

RecordTriples == CatalogTriples \cup ReorderedTriples \cup UnknownTriples

PurposeValues ==
  { NoPurpose, Purpose(INTENTIONS.crear_cliente), Purpose(INTENTIONS.crear_venta) }

\* the conversation id the store is called with
SessionId == "s1"

\* save_session(session_id, state) with an Intention pending, or with None
SaveState ==
  \E pending_action \in { INTENTIONS[k] : k \in DOMAIN INTENTIONS } \cup { NoIntention },
     pending_data \in DataValues, current_purpose \in PurposeValues :
    \E state \in { [ pending_action |-> pending_action,
                     pending_data |-> pending_data,
                     current_purpose |-> current_purpose ] } :
      /\ store' = save_session(store, SessionId, state)
      /\ call' = [ op |-> "save", state |-> state ]
      /\ ret' = NoRet
      /\ UNCHANGED <<agent, db, turns, replies, last>>

\* the file of the conversation was written by something else
WriteRecord ==
  \E pending_action \in RecordTriples, pending_data \in DataValues,
     current_purpose \in PurposeValues :
    \E record \in { [ exists |-> TRUE, pending_action |-> pending_action,
                      pending_data |-> pending_data,
                      current_purpose |-> current_purpose ] } :
      /\ store' = [store EXCEPT ![SessionId] = record]
      /\ call' = [ op |-> "write", record |-> record ]
      /\ ret' = NoRet
      /\ UNCHANGED <<agent, db, turns, replies, last>>

\* load_session(session_id), and the agent state the entry point restores
LoadState ==
  /\ ret = NoRet
  /\ ret' = [ op |-> "load", record |-> store[SessionId],
              state |-> load_session(store, SessionId),
              restored |-> restore_agent(load_session(store, SessionId)) ]
  /\ UNCHANGED <<agent, db, store, turns, replies, last, call>>

NextSession == SaveState \/ WriteRecord \/ LoadState

SpecSession == Init /\ [][NextSession]_vars

(***************************************************************************)
(* The matcher called directly                                             *)
(***************************************************************************)
\* a text with its accents left out, as a user without them types it
unaccented(text) == strip_marks(nfd(text))

\* a text typed in capitals
capitals(text) ==
  [ i \in DOMAIN text |->
      IF \E c \in DOMAIN UpperToLower : UpperToLower[c] = text[i]
        THEN CHOOSE c \in DOMAIN UpperToLower : UpperToLower[c] = text[i]
      ELSE text[i] ]

\* every phrase of the phrase table, as written
AllPhrases == UNION { Range(patterns[k]) : k \in DOMAIN patterns }

\* the words the matcher knows, as written: confirmation and negation
\* words, entity synonyms, the entity words of the last test, the question
\* words
KnownWords ==
  Range(CONFIRMATION_KEYWORDS) \cup Range(NEGATION_KEYWORDS)
    \cup Range(business_keywords)
    \cup Range(cliente_words) \cup Range(producto_words)
    \cup Range(venta_words) \cup Range(factura_words)
    \cup { rstrip(q) : q \in Range(question_starters) }

\* words the matcher does not know
OtherWords ==
  { <<"b","i","e","n">>,
    <<"g","r","a","c","i","a","s"," ","a","m","i","g","o">>,
    <<"n","e","c","e","s","i","t","o"," ","a","y","u","d","a">>,
    <<"x","y","z">> }

MessageCores ==
  LET written == AllPhrases \cup KnownWords
  IN  written \cup { unaccented(t) : t \in written } \cup OtherWords

\* what a user says before and after the core of a message
MessagePrefixes ==
  { << >>,
    <<" ">>,
    <<"q","u","e"," ">>,
    <<"p","o","r"," ","q","u","e'"," ">>,
    <<"n","e","c","e","s","i","t","o"," ","m","i","s"," ">> }

MessageSuffixes ==
  { << >>,
    <<" ">>,
    <<" ","d","e"," ","h","o","y"," ","p","o","r"," ","f","a","v","o","r">>,
    <<" ","y"," ","v","e","r"," ","c","l","i","e","n","t","e","s">>,
    <<" ","d","e"," ","c","l","i","e","n","t","e","s"," ","y"," ","v","e","n","t","a","s">> }

MatcherMessages ==
  { p \o c \o s : p \in MessagePrefixes, c \in MessageCores, s \in MessageSuffixes }
    \cup { capitals(c) : c \in MessageCores }

\* a message reaches match_intention
InitMatcher ==
  /\ agent = IdleAgent
  /\ db = EmptyDb
  /\ store = [ s \in Sessions |-> NoRecord ]
  /\ turns = [ k \in Slots |-> FreeSlot ]
  /\ replies = [ s \in Sessions |-> Announcement(NoReply) ]
  /\ last = NoTurn
  /\ call \in { [ op |-> "match", message |-> m ] : m \in MatcherMessages }
  /\ ret = NoRet

\* match_intention(message) returns
MatchMessage ==
  /\ call.op = "match"
  /\ ret = NoRet
  /\ ret' = [ op |-> "match",
              normalized |-> normalize_text(call.message),
              intention |-> match_intention(call.message),
              step |-> match_step(call.message) ]
  /\ UNCHANGED <<agent, db, store, turns, replies, last, call>>

NextMatcher == MatchMessage

SpecMatcher == InitMatcher /\ [][NextMatcher]_vars

(***************************************************************************)
(* One conversation, message by message                                    *)
(***************************************************************************)
\* number of messages of a scripted conversation
MaxDialogue == 3

\* the messages of the update scenario: the request, confirming replies
\* and a refusal
DialogueMessages ==
  { MsgActualizarCliente, MsgSi, MsgSiAcento, MsgConfirmo, MsgNo }

\* a new conversation: no file, nothing said
InitDialogue ==
  /\ agent = IdleAgent
  /\ db \in InitialDbs
  /\ store = [ s \in Sessions |-> NoRecord ]
  /\ turns = [ k \in Slots |-> FreeSlot ]
  /\ replies = [ s \in Sessions |-> Announcement(NoReply) ]
  /\ last = NoTurn
  /\ call = [ op |-> "talk", said |-> << >> ]
  /\ ret = NoRet

\* the user sends the next message of the conversation; the storage works
DialogueMessage ==
  \E msg \in DialogueMessages :
    /\ AllFree
    /\ Len(call.said) < MaxDialogue
    /\ Begin(1, SessionId, msg, FALSE)
    /\ call' = [call EXCEPT !.said = Append(@, msg)]
    /\ UNCHANGED ret

NextDialogue == DialogueMessage \/ ClassifierAnswers

SpecDialogue == InitDialogue /\ [][NextDialogue]_vars

(***************************************************************************)
(* A turn with a pending action, called directly                           *)
(***************************************************************************)
ActionTypes ==
  { "listar", "buscar", "crear", "actualizar", "eliminar", "procesar_venta",
    "generar_factura", "actualizar_stock", "conversar" }

\* entity lists an Intention can carry
EntityLists ==
  { <<"cliente">>, <<"producto">>, <<"venta">>, <<"factura">>,
    <<"detalle_venta">>, <<"asistente">>, <<"producto","cliente">>,
    <<"venta","cliente","producto">>, <<"factura","venta">> }

\* the IntentionType that goes with an action
TypeOf(action) ==
  CASE action \in {"listar", "buscar"} -> "consulta"
    [] action = "crear" -> "registro"
    [] action = "actualizar" -> "modificacion"
    [] action = "eliminar" -> "eliminacion"
    [] action = "procesar_venta" -> "venta"
    [] action = "generar_factura" -> "facturacion"
    [] action = "actualizar_stock" -> "inventario"
    [] OTHER -> "conversacion"

\* every Intention object the types allow, in or out of the catalog
PendingIntentions ==
  { [ key |-> "direct", type |-> TypeOf(a), entities |-> e, action |-> a ] :
      a \in ActionTypes, e \in EntityLists }

\* extracted data with and without an id
PendingData ==
  DataValues \cup
    { MapData("cliente" :> ("id" :> 1 @@ "nombre" :> "zoe")),
      MapData("cliente" :> ("id" :> 0 @@ "nombre" :> "zoe")),
      MapData("producto" :> ("nombre" :> "pan" @@ "precio" :> 2)),
      MapData("producto" :> ("id" :> 1 @@ "nombre" :> "pan" @@ "precio" :> 2)) }

\* str(e) of the exception a failing storage raises
StorageCauses == { "connection refused", "database is locked" }

\* str(e) of the exception that leaves the try block of process_message:
\* the storage's own text when a primitive failed, another text when the
\* exception came from the data or from the formatter
exception_text(state, storage, cause) ==
  LET healthy == execute_action(state.pending_action, state.pending_data, storage, FALSE)
      failing == execute_action(state.pending_action, state.pending_data, storage, TRUE)
  IN  IF cause \in StorageCauses /\ failing.raised
           /\ ~(healthy.raised /\ state.pending_data.kind # "map")
        THEN cause
      ELSE "other"

\* the message of the reply of lines 418-424
process_error_message(text) == <<"Error al procesar el mensaje: ", text>>

\* the message of the reply of a turn
reply_message(seg, text) ==
  IF seg.reply.kind = "process_error"
    THEN process_error_message(text) ELSE << seg.reply.kind >>

\* AgentService with a pending action, about to receive a message
InitConfirm ==
  /\ \E pending_action \in PendingIntentions, pending_data \in PendingData :
       agent = [ pending_action |-> pending_action, pending_data |-> pending_data,
                 current_purpose |-> Purpose(pending_action) ]
  /\ db \in InitialDbs
  /\ store = [ s \in Sessions |-> NoRecord ]
  /\ turns = [ k \in Slots |-> FreeSlot ]
  /\ replies = [ s \in Sessions |-> Announcement(NoReply) ]
  /\ last = NoTurn
  /\ call \in { [ op |-> "confirm", message |-> MsgSi, cause |-> c ] :
                  c \in StorageCauses \cup {"none"} }
  /\ ret = NoRet

\* process_message(message) runs with the pending action; the storage
\* works, or every primitive raises call.cause
ConfirmTurn ==
  /\ call.op = "confirm"
  /\ ret = NoRet
  /\ \E seg \in { process_message(agent, db, call.message, call.cause # "none") } :
       /\ agent' = seg.agent
       /\ db' = seg.db
       /\ ret' = [ op |-> "confirm",
                   intention |-> agent.pending_action,
                   extracted_data |-> agent.pending_data,
                   db_before |-> db,
                   exec_raised |-> seg.exec_raised,
                   calls |-> seg.calls,
                   reply |-> seg.reply,
                   message |-> reply_message(seg, exception_text(agent, db, call.cause)),
                   message_by_cause |->
                     [ c \in StorageCauses |->
                         reply_message(process_message(agent, db, call.message, TRUE),
                                       exception_text(agent, db, c)) ] ]
  /\ UNCHANGED <<store, turns, replies, last, call>>

NextConfirm == ConfirmTurn

SpecConfirm == InitConfirm /\ [][NextConfirm]_vars

(***************************************************************************)
(* The conversational responder called directly                            *)
(***************************************************************************)
\* AgentService.handle_conversation, from its entry to its return
handle_conversation(state, storage, message, llm_ok) ==
  IF conversation_type(message) = "llm"
    THEN handle_conversation_resume(state, storage, llm_ok)
  ELSE Segment(state, storage, ConversationReply(conversation_type(message)),
               "none", MatcherOnly)

\* the keyword lists of the responder, in the order they are tested
ResponderCategories ==
  << greetings, goodbyes, thanks, identity_questions, capability_questions >>

ResponderKeywords ==
  UNION { Range(ResponderCategories[c]) : c \in DOMAIN ResponderCategories }

\* messages for the responder: every keyword alone, in capitals, between
\* other words, every two keywords of different categories in one message,
\* and messages without keyword
ResponderMessages ==
  ResponderKeywords
    \cup { capitals(k) : k \in ResponderKeywords }
    \cup { <<"p","u","e","s"," ">> \o k \o <<" ","a","m","i","g","o">> :
             k \in ResponderKeywords }
    \cup { ResponderCategories[c][1] \o <<" ","y"," ">> \o ResponderCategories[d][1] :
             c, d \in DOMAIN ResponderCategories }
    \cup { MsgBien,
           <<"a","d","i","o'","s">>,
           <<"b","u","e","n","o","s"," ","d","i'","a","s">> }

\* states AgentService can be in when the responder is called
ResponderStates ==
  { IdleAgent,
    [ pending_action |-> INTENTIONS.crear_cliente, pending_data |-> ClienteAna,
      current_purpose |-> Purpose(INTENTIONS.crear_cliente) ] }

InitResponder ==
  /\ agent \in ResponderStates
  /\ db \in InitialDbs
  /\ store = [ s \in Sessions |-> NoRecord ]
  /\ turns = [ k \in Slots |-> FreeSlot ]
  /\ replies = [ s \in Sessions |-> Announcement(NoReply) ]
  /\ last = NoTurn
  /\ call \in { [ op |-> "converse", message |-> m, llm_ok |-> ok ] :
                  m \in ResponderMessages, ok \in BOOLEAN }
  /\ ret = NoRet

\* handle_conversation(message) runs; the external model, if asked,
\* answers or raises
Converse ==
  /\ call.op = "converse"
  /\ ret = NoRet
  /\ \E seg \in { handle_conversation(agent, db, call.message, call.llm_ok) } :
       /\ agent' = seg.agent
       /\ db' = seg.db
       /\ ret' = [ op |-> "converse", state_before |-> agent,
                   reply |-> seg.reply,
                   llm_called |-> seg.reply.kind \in {"general", "fallback"} ]
  /\ UNCHANGED <<store, turns, replies, last, call>>

NextResponder == Converse

SpecResponder == InitResponder /\ [][NextResponder]_vars

(***************************************************************************)
(* normalize_text applied to arbitrary text                                *)
(***************************************************************************)
\* longest text normalize_text is applied to
MaxLen == 3

\* accented and unaccented letters in both cases, precomposed and as base
\* letter plus mark, the bare marks, and whitespace
NormAlphabet == { "a", "A", "a'", "A'", "n", "N", "n~", "N~", "'", "~", " " }

NormTexts == UNION { [ 1..n -> NormAlphabet ] : n \in 0..MaxLen }

InitNormalize ==
  /\ agent = IdleAgent
  /\ db = EmptyDb
  /\ store = [ s \in Sessions |-> NoRecord ]
  /\ turns = [ k \in Slots |-> FreeSlot ]
  /\ replies = [ s \in Sessions |-> Announcement(NoReply) ]
  /\ last = NoTurn
  /\ call \in { [ op |-> "normalize", text |-> t ] : t \in NormTexts }
  /\ ret = NoRet

\* normalize_text(text), and normalize_text on what it returned
Normalize ==
  /\ call.op = "normalize"
  /\ ret = NoRet
  /\ ret' = [ op |-> "normalize",
              once |-> normalize_text(call.text),
              twice |-> normalize_text(normalize_text(call.text)) ]
  /\ UNCHANGED <<agent, db, store, turns, replies, last, call>>

NextNormalize == Normalize

SpecNormalize == InitNormalize /\ [][NextNormalize]_vars

(***************************************************************************)
(* The dispatcher called on a storage that holds records                   *)
(***************************************************************************)
\* number of calls of execute_action in a row
MaxExecutes == 2

ProductoPan ==
  [ c \in ProductoColumns |->
      CASE c = "id" -> 1 [] c = "nombre" -> "pan" [] c = "precio" -> 2
        [] OTHER -> 0 ]
VentaUno ==
  [ id |-> 1, cliente_id |-> 1, fecha_venta |-> <<2024, 1, 31>>, total |-> 2 ]
DetalleUno == [ id |-> 1, venta_id |-> 1, producto_id |-> 1, cantidad |-> 1 ]
FacturaUno == [ id |-> 1, venta_id |-> 1, fecha_emision |-> Null, total |-> 2 ]

\* storages with zero to two customers and with or without a product, and
\* with or without a sale of product 1 to customer 1 and its invoice
DispatchDbs ==
  { [ clientes |-> SubSeq(ClientePool, 1, t[1]),
      productos |-> IF t[2] THEN <<ProductoPan>> ELSE << >>,
      ventas |-> IF t[3] THEN <<VentaUno>> ELSE << >>,
      detalles |-> IF t[3] THEN <<DetalleUno>> ELSE << >>,
      facturas |-> IF t[3] THEN <<FacturaUno>> ELSE << >> ] :
      t \in { u \in (0..2) \X BOOLEAN \X BOOLEAN :
                u[3] => (u[1] >= 1 /\ u[2]) } }

\* list, update and delete intentions, with one and with several entities
DispatchIntentions ==
  { [ key |-> "direct", type |-> TypeOf(a), entities |-> e, action |-> a ] :
      a \in {"listar", "actualizar", "eliminar"},
      e \in { <<"cliente">>, <<"producto">>, <<"venta">>, <<"factura">>,
              <<"producto","cliente">>, <<"factura","venta">>,
              <<"venta","producto">> } }

\* extracted data that name a record by id, with and without other fields
DispatchData ==
  { EmptyData,
    MapData("cliente" :> ("id" :> 1)),
    MapData("cliente" :> ("id" :> 2 @@ "nombre" :> "zoe")),
    MapData("cliente" :> ("id" :> 1 @@ "telefono" :> "555")),
    MapData("cliente" :> ("id" :> 3 @@ "email" :> "z@x")),
    MapData("cliente" :> ("id" :> 2 @@ "email" :> "b@x")),
    MapData("producto" :> ("id" :> 1 @@ "precio" :> 5)),
    MapData("producto" :> ("id" :> 2 @@ "stock" :> 7)),
    MapData("cliente" :> ("id" :> 2) @@ "producto" :> ("id" :> 1)) }

\* the delete the preceding call of execute_action completed, if it was one
NoDelete == [ entity |-> "none", id |-> 0, success |-> FALSE ]
DeleteOf(r) ==
  IF r.op = "execute" /\ ~r.raised /\ r.result.rkind = "delete"
    THEN [ entity |-> r.target, id |-> get_entity(r.extracted_data, r.target)["id"],
           success |-> r.result.success ]
  ELSE NoDelete

\* the entity the update and delete branches of execute_action work on
branch_entity(intention) ==
  IF has(intention, "cliente") THEN "cliente"
  ELSE IF has(intention, "producto") THEN "producto" ELSE "none"

InitDispatch ==
  /\ agent = IdleAgent
  /\ db \in DispatchDbs
  /\ store = [ s \in Sessions |-> NoRecord ]
  /\ turns = [ k \in Slots |-> FreeSlot ]
  /\ replies = [ s \in Sessions |-> Announcement(NoReply) ]
  /\ last = NoTurn
  /\ call = [ op |-> "execute", n |-> 0 ]
  /\ ret = NoRet

\* execute_action(intention, extracted_data) runs on the storage
Execute ==
  /\ call.op = "execute"
  /\ call.n < MaxExecutes
  /\ call' = [call EXCEPT !.n = @ + 1]
  /\ \E intention \in DispatchIntentions, extracted_data \in DispatchData :
       \E ex \in { execute_action(intention, extracted_data, db, FALSE) } :
         /\ db' = ex.db
         /\ ret' = [ op |-> "execute", intention |-> intention,
                     extracted_data |-> extracted_data,
                     target |-> branch_entity(intention),
                     db_before |-> db, raised |-> ex.raised,
                     result |-> ex.result, calls |-> ex.calls,
                     previous |-> DeleteOf(ret) ]
  /\ UNCHANGED <<agent, store, turns, replies, last>>

NextDispatch == Execute

SpecDispatch == InitDispatch /\ [][NextDispatch]_vars

(***************************************************************************)
(* Turns of a conversation whose record is already on disk                 *)
(***************************************************************************)
\* number of messages the conversation receives
MaxStoredTurns == 2

\* the records the conversation can start with: none, an Idle one, and one
\* for every triple a record can hold
StoredRecords ==
  { NoRecord,
    [ exists |-> TRUE, pending_action |-> NoTriple, pending_data |-> NullData,
      current_purpose |-> NoPurpose ] }
    \cup { [ exists |-> TRUE, pending_action |-> t, pending_data |-> d,
             current_purpose |-> [ action |-> t.action, entities |-> t.entities ] ] :
             t \in RecordTriples, d \in { NullData, ClienteAna } }

StoredMessages == { MsgSi, MsgHola, MsgCrearVenta }

InitStored ==
  /\ agent = IdleAgent
  /\ db = EmptyDb
  /\ store \in { [ s \in Sessions |-> IF s = "s2" THEN r ELSE NoRecord ] :
                   r \in StoredRecords }
  /\ turns = [ k \in Slots |-> FreeSlot ]
  /\ replies = [ s \in Sessions |-> Announcement(NoReply) ]
  /\ last = NoTurn
  /\ call = [ op |-> "stored", n |-> 0 ]
  /\ ret = NoRet

\* a message arrives for the conversation while no turn is in progress
StoredMessage ==
  \E msg \in StoredMessages, db_fails \in BOOLEAN :
    /\ AllFree
    /\ call.op = "stored"
    /\ call.n < MaxStoredTurns
    /\ Begin(1, "s2", msg, db_fails)
    /\ call' = [call EXCEPT !.n = @ + 1]
    /\ UNCHANGED ret

NextStored == StoredMessage \/ ClassifierAnswers

SpecStored == InitStored /\ [][NextStored]_vars

(***************************************************************************)
(* Two turns for a conversation that awaits confirmation                   *)
(***************************************************************************)
\* records with an action awaiting confirmation
PendingRecords ==
  { [ exists |-> TRUE, pending_action |-> t, pending_data |-> d,
      current_purpose |-> [ action |-> t.action, entities |-> t.entities ] ] :
      t \in CatalogTriples, d \in { NullData, ClienteAna } }

PairMessages == { MsgSi, MsgNo, MsgCrearVenta }

InitPair ==
  /\ agent = IdleAgent
  /\ db = EmptyDb
  /\ store \in { [ s \in Sessions |-> IF s = "s1" THEN r ELSE NoRecord ] :
                   r \in PendingRecords }
  /\ turns = [ k \in Slots |-> FreeSlot ]
  /\ replies = [ s \in Sessions |-> Announcement(NoReply) ]
  /\ last = NoTurn
  /\ call = [ op |-> "pair", n |-> 0 ]
  /\ ret = NoRet

\* a request for the conversation is taken up by the event loop, whether
\* or not the other request is suspended at an await of the external model
PairMessage ==
  \E slot \in Slots, msg \in PairMessages, db_fails \in BOOLEAN :
    /\ call.op = "pair"
    /\ call.n < MaxStoredTurns
    /\ \A k \in Slots : k < slot => turns[k].pc # "free"
    /\ Begin(slot, "s1", msg, db_fails)
    /\ call' = [call EXCEPT !.n = @ + 1]
    /\ UNCHANGED ret

NextPair == PairMessage \/ ClassifierAnswers

SpecPair == InitPair /\ [][NextPair]_vars

(***************************************************************************)
(* Properties                                                              *)
(***************************************************************************)
\* the persisted state of a conversation is Idle
IdleRecord(record) ==
  /\ record.pending_action = NoTriple
  /\ record.pending_data = NullData
  /\ record.current_purpose = NoPurpose

AwaitingConfirmation(record) == record.pending_action # NoTriple

\* the turn that just returned started in Idle / in AwaitingConfirmation
StartedIdle == last.done /\ ~AwaitingConfirmation(last.record)
StartedAwaiting == last.done /\ AwaitingConfirmation(last.record)

ActionIntent(key) == key \notin {"none", "conversacion_general"}

\* C1: the Dispatcher is invoked in a turn only if the preceding completed
\* turn of the same conversation replied confirmation_required, with the
\* intent and extracted data announced in that reply; a turn that starts in
\* Idle never invokes it.
C1_ConfirmBeforeExecute ==
  /\ (last.done /\ last.dispatched) =>
        /\ last.prev_reply.status = "confirmation_required"
        /\ last.prev_reply.intention = Triple(last.disp_intent)
        /\ last.prev_reply.extracted_data = last.disp_data
  /\ StartedIdle => ~last.dispatched

\* C2: after a turn in which the Dispatcher was invoked, whether execute
\* returned or raised, the in-memory and the persisted state of the
\* conversation are Idle.
C2_IdleAfterExecute ==
  (last.done /\ last.dispatched) =>
     /\ last.agent_end = IdleAgent
     /\ IdleRecord(store[last.sid])

\* C3: a conversation in AwaitingConfirmation eventually returns to Idle,
\* for every pending action and extracted data, provided messages keep
\* arriving for it.
C3_NeverTrapped ==
  \A sid \in Sessions :
    AwaitingConfirmation(store[sid]) ~> ~AwaitingConfirmation(store[sid])

\* C4: in AwaitingConfirmation, whatever the text of the message, the stored
\* PendingAction is handed to the Dispatcher with the stored extracted data,
\* and neither the matcher nor the classifier runs in that turn.
C4_PendingAlwaysDispatched ==
  StartedAwaiting =>
     /\ last.dispatched
     /\ Triple(last.disp_intent) = last.record.pending_action
     /\ last.disp_data = last.record.pending_data
     /\ ~last.matcher_called
     /\ ~last.classifier_called

C4_Witness ==
  /\ StartedAwaiting
  /\ last.said.keyword = "negation"
  /\ last.dispatched
  /\ last.disp_intent = INTENTIONS.crear_cliente
  /\ last.disp_data = ClienteAna

\* C5: in Idle, a message the matcher resolves to an intent other than
\* small-talk stores a PendingAction with exactly that intent and with the
\* classifier payload's extracted_data, replies confirmation_required and
\* ends in AwaitingConfirmation.
C5_FreshActionIsStored ==
  (StartedIdle /\ ActionIntent(last.said.intent)) =>
     /\ last.reply.status = "confirmation_required"
     /\ last.agent_end.pending_action = INTENTIONS[last.said.intent]
     /\ store[last.sid].pending_action = Triple(INTENTIONS[last.said.intent])
     /\ (last.analysis.payload.pkind = "dict" /\ last.analysis.payload.has_ed) =>
           store[last.sid].pending_data = last.analysis.payload.ed

\* C6: in Idle, a message the matcher resolves to small-talk is answered by
\* the Conversational Responder with status success; no PendingAction is
\* created, the Dispatcher is not invoked, the conversation stays Idle.
C6_SmallTalkStaysIdle ==
  (StartedIdle /\ last.said.intent = "conversacion_general") =>
     /\ last.reply.status = "success"
     /\ last.responder_called
     /\ ~last.dispatched
     /\ last.agent_end = IdleAgent
     /\ IdleRecord(store[last.sid])

\* C7: in Idle, a message that normalizes to a confirmation or negation
\* keyword gets a reply of status error; the Dispatcher is not invoked, no
\* PendingAction is stored, the conversation is Idle at the end of the turn.
C7_OrphanConfirmation ==
  (StartedIdle /\ last.said.keyword # "none") =>
     /\ last.reply.status = "error"
     /\ ~last.dispatched
     /\ last.agent_end = IdleAgent
     /\ IdleRecord(store[last.sid])

C7_Witness ==
  /\ StartedIdle
  /\ last.said.keyword = "confirmation"
  /\ last.classifier_called
  /\ last.analysis.payload.pkind = "dict"
  /\ last.matcher_called
  /\ last.reply.kind = "no_intention"

\* C8: when the classifier call raises during a fresh message in Idle, the
\* matcher still decides the intent, the extracted data defaults to the
\* empty mapping and the turn replies confirmation_required, with the
\* PendingAction stored, whenever the matcher found an action intent.
C8_ClassifierFailureDegrades ==
  (StartedIdle /\ last.analysis.called /\ last.analysis.failed
     /\ ActionIntent(last.said.intent)) =>
     /\ last.reply.status = "confirmation_required"
     /\ last.agent_end.pending_action = INTENTIONS[last.said.intent]
     /\ last.agent_end.pending_data = EmptyData
     /\ store[last.sid].pending_action = Triple(INTENTIONS[last.said.intent])

\* C9: when turns of two conversations interleave at the awaits, what a turn
\* saves is its own conversation's state: a turn that started in Idle and
\* replies success or error saves Idle, and a turn that replies
\* confirmation_required saves the PendingAction its own reply announces.
C9_ConversationsIsolated ==
  /\ (StartedIdle /\ last.reply.status \in {"success", "error"}) =>
        IdleRecord(store[last.sid])
  /\ (last.done /\ last.reply.status = "confirmation_required") =>
        /\ store[last.sid].pending_action = last.reply.intention
        /\ store[last.sid].pending_data = last.reply.extracted_data

\* the engine state a stored record stands for
StateOf(record) ==
  IF record.pending_action = NoTriple THEN IdleAgent
  ELSE [ pending_action |->
           INTENTIONS[CHOOSE key \in DOMAIN INTENTIONS :
                        Triple(INTENTIONS[key]) = record.pending_action],
         pending_data |-> record.pending_data,
         current_purpose |-> record.current_purpose ]

\* C10: every turn loads the session before processing and saves the
\* agent's resulting state for its id before it returns, for every reply
\* status, also when classification or execution failed.
C10_LoadProcessSave ==
  last.done =>
     /\ last.agent_start = StateOf(last.record)
     /\ store[last.sid].exists
     /\ StateOf(store[last.sid]) = last.agent_end
     /\ last.reply.status \in {"success", "error", "confirmation_required"}

C10_Witness ==
  /\ last.done
  /\ last.exec_raised
  /\ last.reply.status = "error"
  /\ AwaitingConfirmation(store[last.sid])

\* the catalog entries a stored triple names: same category, same action,
\* same set of entity labels
NamedBy(triple) ==
  { k \in DOMAIN INTENTIONS :
      /\ INTENTIONS[k].type = triple.type
      /\ INTENTIONS[k].action = triple.action
      /\ Range(INTENTIONS[k].entities) = Range(triple.entities) }

\* C11: load after save returns the catalog entry of the saved intent with
\* the same pending_data and current_purpose; a record that holds an
\* entry's triple with the entity labels in another order loads to that
\* entry too.
C11_SessionRoundTrip ==
  /\ (ret.op = "load" /\ call.op = "save"
        /\ call.state.pending_action # NoIntention) =>
        /\ ret.state.pending = "intention"
        /\ ret.state.pending_action = call.state.pending_action
        /\ ret.state.pending_data = call.state.pending_data
        /\ ret.state.current_purpose = call.state.current_purpose
  /\ (ret.op = "load" /\ call.op = "write") =>
        \A k \in NamedBy(call.record.pending_action) :
          /\ ret.state.pending = "intention"
          /\ ret.state.pending_action = INTENTIONS[k]
          /\ ret.state.pending_data = call.record.pending_data
          /\ ret.state.current_purpose = call.record.current_purpose

C11_Witness ==
  /\ ret.op = "load"
  /\ call.op = "write"
  /\ call.record.pending_action.entities = <<"producto","venta","cliente">>
  /\ ret.state.pending_action = INTENTIONS.crear_venta
  /\ ret.state.pending_data = ClienteAna

\* the record holds a pending_action that names no catalog entry
Unmatched(record) ==
  /\ record.exists
  /\ record.pending_action # NoTriple
  /\ NamedBy(record.pending_action) = {}

IdleStoredRecord ==
  [ exists |-> TRUE, pending_action |-> NoTriple, pending_data |-> NullData,
    current_purpose |-> NoPurpose ]

\* C13: loading an id without a record gives the empty state, and a turn
\* processed from it does what a turn processed from a stored Idle record
\* does: same restored agent, same reply, same state to save.
C13_MissingRecordIsIdle ==
  /\ \A sid \in Sessions :
       ~store[sid].exists =>
         /\ load_session(store, sid).pending = "none"
         /\ restore_agent(load_session(store, sid)) = IdleAgent
         /\ \A msg \in Messages, db_fails \in BOOLEAN :
              process_message(restore_agent(load_session(store, sid)),
                              db, msg, db_fails)
                = process_message(
                    restore_agent(load_session(
                      [store EXCEPT ![sid] = IdleStoredRecord], sid)),
                    db, msg, db_fails)
  /\ (last.done /\ ~last.record.exists) =>
        /\ last.agent_start = IdleAgent
        /\ ~last.dispatched
        /\ last.reply.status \in {"success", "error", "confirmation_required"}

C13_Witness ==
  /\ last.done
  /\ ~last.record.exists
  /\ last.reply.status = "confirmation_required"
  /\ AwaitingConfirmation(store[last.sid])

\* C14: no two catalog entries share category, action and entity set, so
\* a stored triple is accepted by at most one entry of the catalog.
C14_TripleIsUnique ==
  /\ \A k1, k2 \in DOMAIN INTENTIONS :
       ( /\ INTENTIONS[k1].type = INTENTIONS[k2].type
         /\ INTENTIONS[k1].action = INTENTIONS[k2].action
         /\ Range(INTENTIONS[k1].entities) = Range(INTENTIONS[k2].entities) )
         => k1 = k2
  /\ ret.op = "load" =>
       Cardinality(matching_entries(ret.record.pending_action)) <= 1

C14_Witness ==
  /\ ret.op = "load"
  /\ ret.record.pending_action = Triple(INTENTIONS.listar_clientes)
  /\ Cardinality(matching_entries(ret.record.pending_action)) = 1
  /\ ret.state.pending_action = INTENTIONS.listar_clientes

\* match_intention has returned for the message of the call
Matched == ret.op = "match"

\* the normalized message is a confirmation or a negation word
IsKeyword(normalized_message) ==
  \/ in_list(normalized_message, CONFIRMATION_KEYWORDS)
  \/ in_list(normalized_message, NEGATION_KEYWORDS)

\* one of the tests of steps 2 to 5 applies to the normalized message
SomeStepApplies(normalized_message) ==
  \/ phrase_hits(normalized_message) # {}
  \/ starts_with_question(normalized_message)
  \/ short_without_business(normalized_message)
  \/ any_in(cliente_words \o producto_words \o venta_words \o factura_words,
            normalized_message)

CatalogOrder ==
  << "listar_clientes", "buscar_cliente", "crear_cliente", "listar_productos",
     "crear_venta", "generar_factura", "conversacion_general" >>

\* a phrase listed under the key is a substring of the normalized message
HasPhraseOf(key, normalized_message) ==
  \E i \in DOMAIN patterns[key] : contains(normalized_message, patterns[key][i])

\* C16: when a normalized message that is no confirmation or negation word
\* contains phrases of one or several catalog keys, match_intention returns
\* the entry of the key that comes first in the catalog order, wherever
\* the phrases stand in the message and however long they are, and it does
\* so at the phrase scan, before the question, short-message and
\* entity-word tests.
C16_FirstKeyInCatalogOrderWins ==
  (Matched /\ ~IsKeyword(ret.normalized)) =>
    \A k \in DOMAIN CatalogOrder :
      ( /\ HasPhraseOf(CatalogOrder[k], ret.normalized)
        /\ \A j \in 1..(k - 1) : ~HasPhraseOf(CatalogOrder[j], ret.normalized) )
      => /\ ret.step = 2
         /\ ret.intention = INTENTIONS[CatalogOrder[k]]

\* "que crear venta y ver clientes": the phrase of crear_venta stands first
\* and is longer, the message starts like a question, and the entry of
\* listar_clientes is returned
C16_Witness ==
  /\ Matched
  /\ call.message =
       <<"q","u","e"," ">> \o <<"c","r","e","a","r"," ","v","e","n","t","a">>
         \o <<" ","y"," ","v","e","r"," ","c","l","i","e","n","t","e","s">>
  /\ HasPhraseOf("listar_clientes", ret.normalized)
  /\ HasPhraseOf("crear_venta", ret.normalized)
  /\ starts_with_question(ret.normalized)
  /\ ret.step = 2
  /\ ret.intention = INTENTIONS.listar_clientes

\* no phrase of the phrase table is a substring of the normalized message
NoPhrase(normalized_message) ==
  \A k \in DOMAIN CatalogOrder : ~HasPhraseOf(CatalogOrder[k], normalized_message)

\* C17: a message that is no confirmation or negation word, contains no
\* catalog phrase and starts with a question word is answered with the
\* small-talk entry by the question test, also when it names customers,
\* products, sales or invoices: the question test comes before the
\* short-message test and the entity words.
C17_QuestionBeforeEntities ==
  ( /\ Matched
    /\ ~IsKeyword(ret.normalized)
    /\ NoPhrase(ret.normalized)
    /\ \E i \in DOMAIN question_starters :
         startswith(ret.normalized, question_starters[i]) )
  => /\ ret.step = 3
     /\ ret.intention = INTENTIONS.conversacion_general

\* "que clientes de hoy por favor" has six words and names customers, and
\* is small talk
C17_Witness ==
  /\ Matched
  /\ call.message =
       <<"q","u","e"," ">> \o <<"c","l","i","e","n","t","e","s">>
         \o <<" ","d","e"," ","h","o","y"," ","p","o","r"," ","f","a","v","o","r">>
  /\ NoPhrase(ret.normalized)
  /\ split_len(ret.normalized) >= 4
  /\ any_in(cliente_words, ret.normalized)
  /\ any_in(business_keywords, ret.normalized)
  /\ ret.step = 3
  /\ ret.intention = INTENTIONS.conversacion_general

\* a keyword of the four synonym lists is a substring of the normalized
\* message
HasEntityKeyword(normalized_message) ==
  \E e \in DOMAIN ENTITY_KEYWORDS : any_in(ENTITY_KEYWORDS[e], normalized_message)

\* steps 1 to 3 do not answer the message
PastQuestionTest ==
  /\ Matched
  /\ ~IsKeyword(ret.normalized)
  /\ NoPhrase(ret.normalized)
  /\ ~starts_with_question(ret.normalized)

\* C18: a message that steps 1 to 3 do not answer is small talk at step 4
\* exactly when it has fewer than 4 whitespace-separated words and
\* contains no keyword of the customer, product, sale and invoice synonym
\* lists; a message of fewer than 4 words with such a keyword is not
\* answered at step 4.
C18_ShortWithoutKeywordIsTalk ==
  PastQuestionTest =>
    /\ (ret.step = 4) <=>
         (split_len(ret.normalized) < 4 /\ ~HasEntityKeyword(ret.normalized))
    /\ (ret.step = 4) => ret.intention = INTENTIONS.conversacion_general

\* "ventas" is one word, holds a sale keyword, and goes on to the entity
\* words
C18_Witness ==
  /\ PastQuestionTest
  /\ call.message = <<"v","e","n","t","a","s">>
  /\ split_len(ret.normalized) < 4
  /\ HasEntityKeyword(ret.normalized)
  /\ ret.step = 5
  /\ ret.intention = INTENTIONS.crear_venta

\* steps 1 to 4 do not answer the message
PastShortTest ==
  /\ PastQuestionTest
  /\ ~(split_len(ret.normalized) < 4 /\ ~HasEntityKeyword(ret.normalized))

\* C19: a message that steps 1 to 4 do not answer is answered with
\* list-customers when it contains a keyword of the customer synonym
\* list, otherwise with list-products for a product keyword, otherwise
\* with create-sale for a sale keyword, otherwise with generate-invoice
\* for an invoice keyword; the keywords are those of the four synonym
\* lists of step 4.
C19_EntityKeywordFallback ==
  PastShortTest =>
    IF any_in(ENTITY_KEYWORDS.cliente, ret.normalized)
      THEN ret.intention = INTENTIONS.listar_clientes
    ELSE IF any_in(ENTITY_KEYWORDS.producto, ret.normalized)
      THEN ret.intention = INTENTIONS.listar_productos
    ELSE IF any_in(ENTITY_KEYWORDS.venta, ret.normalized)
      THEN ret.intention = INTENTIONS.crear_venta
    ELSE IF any_in(ENTITY_KEYWORDS.factura, ret.normalized)
      THEN ret.intention = INTENTIONS.generar_factura
    ELSE TRUE

\* a phrase listed under the key, read without its accents, is a substring
\* of the normalized message
HasPhraseFolded(key, normalized_message) ==
  \E i \in DOMAIN patterns[key] :
    contains(normalized_message, unaccented(patterns[key][i]))

\* C20: matching does not depend on accents or capitals: a message equal
\* to a phrase listed under a catalog key, as it is written in the table,
\* without its accents or in capitals, that contains no phrase of an
\* earlier key, is answered at the phrase scan with the entry of that key;
\* a message that starts with a question word written with an accent is
\* answered by the question test; an entity keyword written with an accent
\* keeps a short message from being small talk at step 4.
C20_AccentInsensitive ==
  Matched =>
    /\ \A k \in DOMAIN CatalogOrder :
         \A i \in DOMAIN patterns[CatalogOrder[k]] :
           ( /\ call.message \in
                  { patterns[CatalogOrder[k]][i],
                    unaccented(patterns[CatalogOrder[k]][i]),
                    capitals(patterns[CatalogOrder[k]][i]) }
             /\ \A j \in 1..(k - 1) : ~HasPhraseFolded(CatalogOrder[j], ret.normalized) )
           => /\ ret.step = 2
              /\ ret.intention = INTENTIONS[CatalogOrder[k]]
    /\ ( /\ ~IsKeyword(ret.normalized)
         /\ \A k \in DOMAIN CatalogOrder : ~HasPhraseFolded(CatalogOrder[k], ret.normalized)
         /\ \E i \in DOMAIN question_starters :
              startswith(ret.normalized, unaccented(question_starters[i])) )
       => /\ ret.step = 3
          /\ ret.intention = INTENTIONS.conversacion_general
    /\ ( \E i \in DOMAIN business_keywords :
           contains(ret.normalized, unaccented(business_keywords[i])) )
       => ret.step # 4

\* the normalized message is a confirmation word
Confirming(msg) == in_list(normalize_text(msg), CONFIRMATION_KEYWORDS)

\* the entity of the extracted data carries no id
LacksId(extracted_data, entity) ==
  /\ extracted_data.kind = "map"
  /\ "id" \notin DOMAIN get_entity(extracted_data, entity)

\* the conversation said "actualizar cliente", was asked to confirm, and
\* the data kept for the action has no customer id
UpdateAnnounced ==
  /\ call.op = "talk"
  /\ Len(call.said) >= 2
  /\ call.said[1] = MsgActualizarCliente
  /\ Confirming(call.said[2])

\* C21: scenario C. From Idle, "actualizar cliente" followed by a
\* confirming message, the extracted data having no id, makes the
\* dispatcher return the data-validation error; the conversation is Idle
\* afterwards, and a following bare "si" is answered with the
\* nothing-pending error.
C21_UpdateWithoutIdScenario ==
  /\ ( /\ UpdateAnnounced
       /\ Len(call.said) = 2
       /\ last.done
       /\ last.prev_reply.status = "confirmation_required"
       /\ LacksId(last.prev_reply.extracted_data, "cliente") )
     => /\ last.dispatched
        /\ last.reply.result = DataError
        /\ last.agent_end = IdleAgent
        /\ IdleRecord(store[SessionId])
  /\ ( /\ UpdateAnnounced
       /\ Len(call.said) = 3
       /\ call.said[3] = MsgSi
       /\ last.done
       /\ IdleRecord(last.record) )
     => last.reply.kind = "nothing_pending"

\* the turn called the classifier and the external model answered a text
ClassifierAnswered ==
  /\ last.done
  /\ last.analysis.called
  /\ ~last.analysis.failed

\* C22: for every text the external model answers (a JSON object, text
\* around an object, text around a list, text without JSON, undecodable
\* text between braces) the classifier adapter returns a mapping that
\* carries intention, entities, action and extracted_data, and when
\* nothing can be decoded it returns exactly the default payload with
\* "otro" labels and empty extracted_data.
C22_AdapterAlwaysPayload ==
  ClassifierAnswered =>
    /\ last.analysis.payload.pkind = "dict"
    /\ last.analysis.payload.has_ed
    /\ last.analysis.shape \in {"plain", "undecodable"} =>
         last.analysis.payload = DefaultPayload

\* the text the external model answered is no JSON object: text without
\* JSON, undecodable text, a list, or the empty object
Malformed(analysis) ==
  \/ analysis.shape \in {"plain", "undecodable", "embedded_list"}
  \/ analysis.payload.pkind # "dict"

\* C23: a malformed answer of the external model to a fresh message in
\* Idle never gives a reply with status error: the turn goes on with the
\* matcher's intent and ends with the small-talk reply or with the
\* confirmation_required reply.
C23_MalformedOutputRecovered ==
  ( /\ StartedIdle
    /\ last.said.keyword = "none"
    /\ ClassifierAnswered
    /\ Malformed(last.analysis) )
  => /\ last.reply.status # "error"
     /\ last.matcher_called
     /\ \/ last.responder_called
        \/ last.reply.status = "confirmation_required"

\* the turn with the pending action has run
Confirmed == ret.op = "confirm"

\* the entity whose branch execute_action takes for create, update, delete
Target(intention) ==
  IF has(intention, "cliente") THEN "cliente"
  ELSE IF has(intention, "producto") THEN "producto"
  ELSE "none"

NoBranch(intention) ==
  \/ intention.action \in {"buscar", "procesar_venta", "generar_factura",
                           "actualizar_stock", "conversar"}
  \/ /\ intention.action \in {"crear", "actualizar", "eliminar"}
     /\ ~has(intention, "cliente")
     /\ ~has(intention, "producto")
  \/ /\ intention.action = "listar"
     /\ \A e \in {"cliente", "producto", "venta", "factura"} : ~has(intention, e)

\* C25: for every intent whose action and entities have no branch in
\* execute_action (search, process-sale, generate-invoice, adjust-stock,
\* converse, create/update/delete on sale or invoice, list on an entity
\* outside the four business entities) execute_action returns the
\* "not implemented" error payload, does not raise and calls no storage
\* primitive.
C25_NoBranchIsNotImplemented ==
  (Confirmed /\ NoBranch(ret.intention))
  => /\ ~ret.exec_raised
     /\ ret.reply.result = NotImplemented
     /\ ret.calls = {}
     /\ db = ret.db_before

\* the catalog's create-sale intent, extracted data None, storage
\* unavailable: "not implemented" is returned
C25_Witness ==
  /\ Confirmed
  /\ ret.intention.action = "procesar_venta"
  /\ ret.intention.entities = <<"venta","cliente","producto">>
  /\ ret.extracted_data = NullData
  /\ call.cause # "none"
  /\ ret.reply.result = NotImplemented
  /\ ~ret.exec_raised

\* the storage raised while the pending action was executed
StorageFailed ==
  /\ Confirmed
  /\ call.cause \in StorageCauses
  /\ ret.exec_raised
  /\ ret.extracted_data.kind = "map"

\* C26: when the storage fails during execution the reply to the user is
\* a generic failure message that does not depend on the cause: two runs
\* that differ only in the text of the storage exception return the same
\* reply message.
C26_FailureReplyIsGeneric ==
  StorageFailed =>
    \A c1, c2 \in StorageCauses :
      ret.message_by_cause[c1] = ret.message_by_cause[c2]

Conversed == ret.op = "converse"

\* the names of the replies, in the order of the claim
CategoryNames == << "greeting", "goodbye", "thanks", "identity", "capabilities" >>

\* a keyword of the category is a substring of the lower-cased message
InCategory(c, message) == any_in(ResponderCategories[c], lower(message))

\* C27: the responder tests the categories greeting, farewell, thanks,
\* identity question, capability question in that order and answers with
\* the first one that has a keyword in the message; a message with
\* keywords of several categories gets the reply of the earliest, and the
\* external model is called only when no category matches.
C27_FirstCategoryWins ==
  Conversed =>
    /\ \A c \in DOMAIN CategoryNames :
         ( /\ InCategory(c, call.message)
           /\ \A b \in 1..(c - 1) : ~InCategory(b, call.message) )
         => /\ ret.reply.kind = CategoryNames[c]
            /\ ~ret.llm_called
    /\ ret.llm_called <=>
         \A c \in DOMAIN CategoryNames : ~InCategory(c, call.message)

\* "gracias y hola": the thanks keyword stands first, the greeting answers
C27_Witness ==
  /\ Conversed
  /\ call.message =
       <<"g","r","a","c","i","a","s">> \o <<" ","y"," ">> \o <<"h","o","l","a">>
  /\ InCategory(1, call.message)
  /\ InCategory(3, call.message)
  /\ ret.reply.kind = "greeting"
  /\ ~ret.llm_called


\* C28: the responder leaves pending_action, pending_data and
\* current_purpose as they were on every path, and when the call of the
\* external model fails it returns the static fallback reply with status
\* success instead of raising.
C28_ResponderKeepsState ==
  Conversed =>
    /\ agent.pending_action = ret.state_before.pending_action
    /\ agent.pending_data = ret.state_before.pending_data
    /\ agent.current_purpose = ret.state_before.current_purpose
    /\ (conversation_type(call.message) = "llm" /\ ~call.llm_ok)
         => /\ ret.reply.kind = "fallback"
            /\ ret.reply.status = "success"

\* an action awaits confirmation, the message has no keyword and the model
\* call fails
C28_Witness ==
  /\ Conversed
  /\ call.message = MsgBien
  /\ ~call.llm_ok
  /\ ret.state_before # IdleAgent
  /\ agent = ret.state_before
  /\ ret.reply.kind = "fallback"
  /\ ret.reply.status = "success"


Normalized == ret.op = "normalize"

\* C29: normalize_text is idempotent: for every text over accented and
\* unaccented letters in both cases, combining marks and whitespace,
\* normalizing the normalized text gives the normalized text.
C29_NormalizeIdempotent == Normalized => ret.twice = ret.once

\* a bare mark, a blank and an accented capital: the first pass changes the
\* text, the second changes nothing
C29_Witness ==
  /\ Normalized
  /\ call.text = <<"'", " ", "A'">>
  /\ ret.once = <<"a">>
  /\ ret.once # call.text
  /\ ret.twice = ret.once


\* C30: in Idle, every message that normalizes to a confirmation or a
\* negation keyword (confirmo, confirmar, ok, dale, adelante, cancelado,
\* nope, negativo included) gets the "nothing pending" reply without the
\* classifier or the matcher being called; those two run only for messages
\* that are not such keywords.
C30_KeywordInIdleIsNothingPending ==
  StartedIdle =>
    /\ last.said.keyword # "none"
         => /\ last.reply.kind = "nothing_pending"
            /\ ~last.classifier_called
            /\ ~last.matcher_called
    /\ (last.classifier_called \/ last.matcher_called)
         => last.said.keyword = "none"


Executed == ret.op = "execute"

\* the table of an entity in a storage
TableOf(storage, entity) ==
  IF entity = "cliente" THEN storage.clientes ELSE storage.productos

\* execute_action took the branch of `action` for a customer or a product
\* and found an id in the extracted data
OnRecord(action) ==
  /\ Executed
  /\ ret.intention.action = action
  /\ ret.target # "none"
  /\ ~falsy_id(get_entity(ret.extracted_data, ret.target))

TargetId == get_entity(ret.extracted_data, ret.target)["id"]

\* the other tables of the storage are as before the call
OtherTablesKept ==
  \A t \in {"clientes", "productos", "ventas", "detalles", "facturas"} :
    (t # (IF ret.target = "cliente" THEN "clientes" ELSE "productos"))
      => db[t] = ret.db_before[t]

\* C31: delete with an id: when a record with that id exists it is removed,
\* every other record is unchanged and success is true; when no record has
\* that id the storage is unchanged and success is false; deleting the same
\* id twice in a row gives true, then false.
C31_DeleteById ==
  OnRecord("eliminar") =>
    /\ ~ret.raised
    /\ ret.result.rkind = "delete"
    /\ IF TargetId \in Ids(TableOf(ret.db_before, ret.target))
         THEN /\ ret.result.success
              /\ TableOf(db, ret.target) =
                   SelectSeq(TableOf(ret.db_before, ret.target),
                             LAMBDA r : r.id # TargetId)
              /\ OtherTablesKept
         ELSE /\ ~ret.result.success
              /\ db = ret.db_before
    /\ ( /\ ret.previous.entity = ret.target
         /\ ret.previous.id = TargetId
         /\ ret.previous.success )
         => ~ret.result.success

\* row `new` is row `old` with exactly the fields of `info` set to its values
Patched(old, new, info) ==
  /\ DOMAIN new = DOMAIN old
  /\ \A c \in DOMAIN old :
       new[c] = IF c \in DOMAIN info THEN info[c] ELSE old[c]

FirstListed(intention) ==
  IF has(intention, "cliente") THEN "clientes"
  ELSE IF has(intention, "producto") THEN "productos"
  ELSE IF has(intention, "venta") THEN "ventas"
  ELSE IF has(intention, "factura") THEN "facturas"
  ELSE "none"

\* a record as a plain mapping: every field with its value, a date and time
\* as its ISO-8601 text
Plain(record) ==
  [ c \in DOMAIN record |->
      IF c \in {"fecha_venta"} /\ record[c] = <<2024, 1, 31>>
        THEN "2024-01-31T00:00:00" ELSE record[c] ]

Coherent(record) ==
  /\ (record.pending_action = NoTriple) <=> (record.current_purpose = NoPurpose)
  /\ (record.pending_action = NoTriple) => (record.pending_data = NullData)
  /\ (record.pending_action # NoTriple) =>
       record.current_purpose =
         [ action |-> record.pending_action.action,
           entities |-> record.pending_action.entities ]

\* C34: after every turn processed without interleaving, in the saved
\* record pending_action is null exactly when current_purpose is null,
\* pending_action null implies pending_data null, and when pending_action
\* is not null current_purpose is the text derived from the action and the
\* entity names of that intent.
C34_SavedStateCoherent ==
  \A sid \in Sessions : store[sid].exists => Coherent(store[sid])

\* a turn has just saved a pending action together with its purpose, and
\* the classifier gave no extracted data
C34_Witness ==
  /\ last.done
  /\ last.reply.status = "confirmation_required"
  /\ store[last.sid].pending_action = Triple(INTENTIONS.crear_venta)
  /\ store[last.sid].current_purpose = Purpose(INTENTIONS.crear_venta)
  /\ store[last.sid].pending_data = NullData

\* what execute_action gave in the turn that confirmed
Outcome ==
  execute_action(ret.intention, ret.extracted_data, ret.db_before,
                 call.cause # "none")

\* C35: in a turn that starts with a pending action, whenever execute
\* returns and the result can be formatted the reply status is success,
\* also when the result is a validation-error or a not-implemented payload;
\* status error is returned in that branch only when execute or the
\* formatting of the response raises.
C35_ErrorPayloadIsSuccess ==
  Confirmed =>
    /\ ret.reply.status \in {"success", "error"}
    /\ (~ret.exec_raised /\ ~format_raises(Outcome.result))
         => /\ ret.reply.status = "success"
            /\ ret.reply.result = Outcome.result
    /\ ret.reply.status = "error"
         => (ret.exec_raised \/ format_raises(Outcome.result))

\* an update without id: the data error comes back with status success
C35_Witness ==
  /\ Confirmed
  /\ ret.intention.action = "actualizar"
  /\ ret.intention.entities = <<"cliente">>
  /\ ret.extracted_data = ClienteAna
  /\ ~ret.exec_raised
  /\ ret.reply.result = DataError
  /\ ret.reply.status = "success"

\* the turn of this conversation before the one that just returned invoked
\* the dispatcher: its reply carries the executed intent with status
\* success, or it is an error reply that left an action pending (a turn
\* that starts in Idle and ends in an error leaves Idle)
PreviousTurnDispatched ==
  \/ /\ last.prev_reply.status = "success"
     /\ last.prev_reply.intention # NoTriple
  \/ /\ last.prev_reply.status = "error"
     /\ AwaitingConfirmation(last.record)

\* C36: once a turn has invoked the dispatcher for a stored pending action,
\* no later turn of that conversation invokes it again unless a new
\* confirmation_required reply was issued in between, whatever the first
\* invocation gave (a result, an error payload or an exception).  A turn
\* with a pending action always dispatches, so a second invocation without
\* a confirmation in between is one in the turn right after the first.
C36_AtMostOnce ==
  (last.done /\ last.dispatched) => ~PreviousTurnDispatched

\* the triple of a catalog intent other than small talk
BusinessTriples ==
  { Triple(INTENTIONS[k]) : k \in DOMAIN INTENTIONS \ {"conversacion_general"} }

\* load_session cannot make an Intention of the record's pending_action
Unreconstructible(record) ==
  /\ record.exists
  /\ record.pending_action # NoTriple
  /\ reconstruct_intention(record.pending_action) = NoIntention

\* the record the turn that just returned has written
Written == store[last.sid]

WrittenIsCatalog ==
  last.done =>
    /\ Written.exists
    /\ Written.pending_action \in BusinessTriples \cup { NoTriple }

\* (as claimed) a record whose triple cannot be reconstructed is
\* overwritten with an Idle record by the next turn
C37_RawRecordBecomesIdle ==
  /\ WrittenIsCatalog
  /\ (last.done /\ Unreconstructible(last.record)) => IdleRecord(Written)

\* C37 (amended): in every record the entry point writes, pending_action is
\* null or the triple of a catalog intent other than small talk; the
\* small-talk intent and a raw triple are never written as pending.  The
\* turn that finds a record whose triple cannot be reconstructed starts
\* from Idle, dispatches nothing, and overwrites the record with what that
\* turn leaves: an Idle record, or the catalog intent its message announces.
C37_RawRecordIsDiscarded ==
  /\ WrittenIsCatalog
  /\ (last.done /\ Unreconstructible(last.record)) =>
       /\ last.agent_start = IdleAgent
       /\ ~last.dispatched
       /\ IF last.reply.status = "confirmation_required"
            THEN Written.pending_action = last.reply.intention
            ELSE IdleRecord(Written)

\* the record held a triple of no catalog entry, the message asked for a
\* sale: the record now holds crear_venta
C37_Witness ==
  /\ last.done
  /\ Unreconstructible(last.record)
  /\ last.reply.status = "confirmation_required"
  /\ Written.pending_action = Triple(INTENTIONS.crear_venta)

\* C38: when two turns for the same conversation arrive while it awaits
\* confirmation, the confirming turn loads, executes, clears and saves
\* without a suspension point, so the stored pending action is dispatched by
\* exactly one of the two turns and the other turn observes Idle.  The
\* first of the two turns finds the pending action and dispatches it; the
\* formula is about the turn that comes second.
C38_OneOfTwoTurnsDispatches ==
  /\ \A k \in Slots : turns[k].pc # "free" => turns[k].agent_start = IdleAgent
  /\ (call.op = "pair" /\ call.n = 1 /\ last.done) => last.dispatched
  /\ (call.op = "pair" /\ call.n = 2 /\ AllFree /\ last.done) =>
       /\ ~last.dispatched
       /\ last.agent_start = IdleAgent
       /\ IdleRecord(last.record)

\* the storage primitives a conversation can reach
ReachablePrimitives ==
  { <<"get", "clientes">>, <<"get", "productos">>, <<"create", "cliente">> }

\* what executing a catalog entry can call, whatever the extracted data
CatalogCalls ==
  UNION { execute_action(INTENTIONS[k], d, storage, FALSE).calls :
            k \in DOMAIN INTENTIONS, d \in PendingData, storage \in InitialDbs }

====
